---- MODULE Spec2Model ----
(***************************************************************************)
(* Model of the delivery back office: the recurring date generator, the    *)
(* order number allocator and the order lifecycle handlers of              *)
(* src/src/controllers/order.controller.ts (first revision in the file,    *)
(* lines 1-1328) with src/unnamed/part_007 (utils/orderNumberUtils).       *)
(*                                                                         *)
(* Dates are whole calendar days counted from 1970-01-01 (the ECMAScript   *)
(* day number); the time of day and daylight-saving shifts of the local    *)
(* time zone are not modelled.                                             *)
(***************************************************************************)
EXTENDS Integers, Sequences, FiniteSets, TLC

VARIABLES
    gen,      \* one evaluation of generateRecurringDates: inputs, position, output
    orders,   \* the orders collection: a set of order documents
    nextId,   \* the next fresh document _id
    proc,     \* the requests in flight: per process, its position and locals
    audits    \* the audits collection: the audit records in the order written

vars == <<gen, orders, nextId, proc, audits>>

NULL == "null"

(***************************************************************************)
(* Bounds of the model                                                     *)
(***************************************************************************)
BaseYear == 2024         \* the calendar year the modelled requests run in
MaxStartOffset == 6      \* generator start dates: Jan 1 .. Jan 1 + MaxStartOffset
MaxSpan == 62            \* generator end dates: start - 1 .. start + MaxSpan
MaxCount == 3            \* allocator calls ask for 0 .. MaxCount numbers
MaxDbErrors == 1         \* database calls that may fail during one allocator call
TimestampBase == 20000   \* stands for Date.now(): any number of more than 4 digits
MaxClockDrift == 1       \* Date.now() is in TimestampBase .. TimestampBase + MaxClockDrift
MaxAudits == 2           \* audit records after which no further request arrives
MaxId == 3               \* documents ever inserted in one run of the handlers

(***************************************************************************)
(* ECMAScript Date arithmetic (MakeDay, YearFromTime, MonthFromTime,       *)
(* DateFromTime, WeekDay) on day numbers.                                  *)
(***************************************************************************)
IsLeapYear(y) == (y % 4 = 0 /\ y % 100 # 0) \/ y % 400 = 0

DayFromYear(y) ==
    365 * (y - 1970) + ((y - 1969) \div 4) - ((y - 1901) \div 100)
        + ((y - 1601) \div 400)

DaysInMonth(y, m) ==
    CASE m = 1 -> IF IsLeapYear(y) THEN 29 ELSE 28
      [] m \in {3, 5, 8, 10} -> 30
      [] OTHER -> 31

RECURSIVE DaysBeforeMonth(_, _)
DaysBeforeMonth(y, m) ==
    IF m = 0 THEN 0 ELSE DaysBeforeMonth(y, m - 1) + DaysInMonth(y, m - 1)

\* MakeDay(year, month, date): month may exceed 11 and date may exceed the
\* length of the month; both roll over into the following months/years.
MakeDay(y, m, dt) ==
    LET ym == y + (m \div 12)
        mn == m % 12
    IN  DayFromYear(ym) + DaysBeforeMonth(ym, mn) + dt - 1

YearRange == (BaseYear - 1) .. (BaseYear + 3)

GetFullYear(t) ==
    CHOOSE y \in YearRange : DayFromYear(y) <= t /\ t < DayFromYear(y + 1)

GetMonth(t) ==
    LET y == GetFullYear(t)
    IN  CHOOSE m \in 0..11 :
            /\ MakeDay(y, m, 1) <= t
            /\ t < MakeDay(y, m, 1) + DaysInMonth(y, m)

GetDate(t) == t - MakeDay(GetFullYear(t), GetMonth(t), 1) + 1

\* 0 = Sunday .. 6 = Saturday; 1970-01-01 was a Thursday
GetDay(t) == (t + 4) % 7

SetDate(t, dt) == MakeDay(GetFullYear(t), GetMonth(t), dt)

\* setDate with an argument given in half days: MakeDay truncates it to an
\* integer (ToIntegerOrInfinity), so getDate() + 3.5 adds three days.
SetDateHalves(t, halves) == MakeDay(GetFullYear(t), GetMonth(t), halves \div 2)

SetMonth(t, m) == MakeDay(GetFullYear(t), m, GetDate(t))

SetFullYear(t, y) == MakeDay(y, GetMonth(t), GetDate(t))

(***************************************************************************)
(* Frequency codes                                                         *)
(***************************************************************************)
\* the values of the Frequency enum the order schema accepts
FrequencyEnum ==
    {"daily", "weekdays", "weekly", "biweekly", "every_3rd_week",
     "every_5th_week", "6_weeks", "8_weeks", "monthly", "quarterly",
     "semi_annually", "annually"}

\* the case labels of the switch in generateRecurringDates
SwitchFrequencies ==
    {"daily", "weekdays", "weekly", "every_2nd_week", "every_3rd_week",
     "every_5th_week", "6_weeks", "8_weeks", "twice_in_a_week", "monthly",
     "quarterly", "semi_annually", "annually", "one_time"}

(***************************************************************************)
(* generateRecurringDates                                                  *)
(***************************************************************************)
RECURSIVE SkipWeekend(_)
SkipWeekend(t) ==
    IF GetDay(t) = 0 \/ GetDay(t) = 6
    THEN SkipWeekend(SetDate(t, GetDate(t) + 1))
    ELSE t

\* a copy-paste slip: every_3rd_week steps like every_2nd_week
StepDays_ThirdWeekAsSecond(frequency) ==
    CASE frequency = "daily" -> 1
      [] frequency = "weekdays" -> 1
      [] frequency = "weekly" -> 7
      [] frequency = "every_2nd_week" -> 14
      [] frequency = "every_3rd_week" -> 14
      [] frequency = "every_5th_week" -> 35
      [] frequency = "6_weeks" -> 42
      [] frequency = "8_weeks" -> 56
      [] OTHER -> 0

\* the days the switch adds with setDate(getDate() + n)
StepDays(frequency) ==
    CASE frequency = "daily" -> 1
      [] frequency = "weekdays" -> 1
      [] frequency = "weekly" -> 7
      [] frequency = "every_2nd_week" -> 14
      [] frequency = "every_3rd_week" -> 21
      [] frequency = "every_5th_week" -> 35
      [] frequency = "6_weeks" -> 42
      [] frequency = "8_weeks" -> 56
      [] OTHER -> 0

\* the body of the switch: the date after one step of the frequency; a
\* frequency with no case label leaves the date as it is
AdvanceDate(t, frequency) ==
    CASE frequency \in {"daily", "weekly", "every_2nd_week", "every_3rd_week",
                        "every_5th_week", "6_weeks", "8_weeks"} ->
             SetDate(t, GetDate(t) + StepDays(frequency))
      [] frequency = "weekdays" ->
             SkipWeekend(SetDate(t, GetDate(t) + StepDays(frequency)))
      [] frequency = "twice_in_a_week" -> SetDateHalves(t, 2 * GetDate(t) + 7)
      [] frequency = "monthly" -> SetMonth(t, GetMonth(t) + 1)
      [] frequency = "quarterly" -> SetMonth(t, GetMonth(t) + 3)
      [] frequency = "semi_annually" -> SetMonth(t, GetMonth(t) + 6)
      [] frequency = "annually" -> SetFullYear(t, GetFullYear(t) + 1)
      [] OTHER -> t

\* the loop test written with < instead of <=
RECURSIVE RecurringLoop_StrictEnd(_, _, _, _)
RecurringLoop_StrictEnd(currentDate, endDate, frequency, dates) ==
    IF currentDate < endDate
    THEN LET pushed == Append(dates, currentDate)
         IN  IF frequency = "one_time"
             THEN pushed
             ELSE RecurringLoop_StrictEnd(AdvanceDate(currentDate, frequency),
                                          endDate, frequency, pushed)
    ELSE dates

\* the while loop: push the current date, then advance; one_time returns
\* from inside the loop after the first push
RECURSIVE RecurringLoop(_, _, _, _)
RecurringLoop(currentDate, endDate, frequency, dates) ==
    IF currentDate <= endDate
    THEN LET pushed == Append(dates, currentDate)
         IN  IF frequency = "one_time"
             THEN pushed
             ELSE RecurringLoop(AdvanceDate(currentDate, frequency), endDate,
                                frequency, pushed)
    ELSE dates

generateRecurringDates(startDate, endDate, frequency) ==
    RecurringLoop(startDate, endDate, frequency, <<>>)

\* the loop never ends: the date does not advance and is not past the end
LoopsForever(startDate, endDate, frequency) ==
    /\ startDate <= endDate
    /\ frequency # "one_time"
    /\ AdvanceDate(startDate, frequency) = startDate

(***************************************************************************)
(* Order numbers: the string A-<year>-<sequence>, kept as its year and the *)
(* decimal digits of the sequence part.                                    *)
(***************************************************************************)
maxAttempts == 200

RECURSIVE ToDigits(_)
\* Number.prototype.toString() of a non-negative integer
ToDigits(n) == IF n < 10 THEN <<n>> ELSE Append(ToDigits(n \div 10), n % 10)

RECURSIVE PadStart(_, _)
\* String.prototype.padStart(width, "0")
PadStart(digits, width) ==
    IF Len(digits) >= width THEN digits ELSE PadStart(<<0>> \o digits, width)

\* `A-${year}-${sequence.toString().padStart(4, "0")}`
FormatOrderNumber(year, sequence) ==
    [prefix |-> "A", year |-> year, seq |-> PadStart(ToDigits(sequence), 4)]

\* no order number: a null or undefined orderNumber / originalOrderNumber
NoOrderNumber == [prefix |-> "", year |-> 0, seq |-> <<>>]

\* no document: the result of a findById that finds nothing
NoOrder ==
    [id |-> 0, orderNumber |-> NoOrderNumber, startDate |-> 0, endDate |-> 0,
     frequency |-> NULL, status |-> NULL, mainOrder |-> FALSE,
     originalOrderNumber |-> NoOrderNumber, assignedDriver |-> NULL,
     deliverySequence |-> 0, beforeImages |-> <<>>, afterImages |-> <<>>]

RECURSIVE DigitsValue(_)
DigitsValue(digits) ==
    IF Len(digits) = 0 THEN 0
    ELSE 10 * DigitsValue(SubSeq(digits, 1, Len(digits) - 1)) + digits[Len(digits)]

\* parseInt(orderNumber.split("-")[2])
ParseSequence(orderNumber) == DigitsValue(orderNumber.seq)

\* string order of two sequence parts (the prefix A-<year>- being equal)
StringLess(a, b) ==
    \E i \in 1..(Len(b)) :
        /\ \A j \in 1..(i - 1) : j <= Len(a) /\ a[j] = b[j]
        /\ \/ i > Len(a)
           \/ i <= Len(a) /\ a[i] < b[i]

\* orderNumber: new RegExp(`^A-${year}-`)
MatchesYear(orderNumber, year) ==
    orderNumber.prefix = "A" /\ orderNumber.year = year

OrderNumbersOf(docs) == {o.orderNumber : o \in docs}

\* Order.findOne({orderNumber: /^A-<year>-/}).sort({orderNumber: -1}): the
\* matching number that is last in string order, none when nothing matches
LastOrderNumber(docs, year) ==
    LET matching == {n \in OrderNumbersOf(docs) : MatchesYear(n, year)}
    IN  IF matching = {} THEN NoOrderNumber
        ELSE CHOOSE n \in matching :
                 \A m \in matching : m = n \/ StringLess(m.seq, n.seq)

StartSequence(docs, year) ==
    LET lastOrder == LastOrderNumber(docs, year)
    IN  IF lastOrder = NoOrderNumber THEN 1 ELSE ParseSequence(lastOrder) + 1

\* the batch startSequence, startSequence + 1, ... of count numbers
BatchNumbers(year, startSequence, count) ==
    [i \in 1..count |-> FormatOrderNumber(year, startSequence + i - 1)]

SeqRange(s) == {s[i] : i \in 1..Len(s)}

Distinct(s) == \A i, j \in 1..Len(s) : i # j => s[i] # s[j]

\* the existence check finds nothing
ExistingOrders_NoneFound(docs, batchNumbers) == {}

\* Order.find({orderNumber: {$in: batchNumbers}})
ExistingOrders(docs, batchNumbers) ==
    {o \in docs : o.orderNumber \in SeqRange(batchNumbers)}

(***************************************************************************)
(* A request in flight.  pc is the await the handler is suspended at.      *)
(***************************************************************************)
NoRequest ==
    [customer |-> NULL, items |-> NULL, status |-> NULL, startDate |-> 0,
     endDate |-> 0, frequency |-> NULL, target |-> 0, updates |-> {},
     user |-> NULL, orderIds |-> <<>>, driver |-> NULL, deliveryDate |-> 0,
     action |-> NULL, imageType |-> NULL, fileName |-> 0,
     beforeImages |-> <<>>, afterImages |-> <<>>, auditId |-> 0]

\* no update of an order's images is pending
NoImageUpdates ==
    [op |-> "none", field |-> NULL, fileName |-> 0, fields |-> {},
     beforeImages |-> <<>>, afterImages |-> <<>>]

IdleLocal ==
    [pc |-> "idle", kind |-> "none", req |-> NoRequest,
     year |-> 0, count |-> 0, attempts |-> 0, dbErrors |-> 0,
     batchNumbers |-> <<>>, fallback |-> FALSE,
     outcome |-> "none", orderNumbers |-> <<>>,
     dates |-> <<>>, created |-> <<>>, removed |-> {},
     order |-> NoOrder, response |-> 0, error |-> "none", auditErrors |-> 0,
     imageUpdates |-> NoImageUpdates, ordersToDelete |-> {}]

\* the test of the while loop and, when it fails, of the fallback's if
AllocLoopTest(l) ==
    IF 0 < l.count /\ l.attempts < maxAttempts THEN "alloc_find_last"
    ELSE IF 0 < l.count THEN "alloc_fallback"
    ELSE "alloc_throw"

\* entry of generateUniqueOrderNumbers(year, count)
AllocEnter(l, year, count) ==
    LET entered == [l EXCEPT !.year = year, !.count = count, !.attempts = 0,
                             !.dbErrors = 0, !.batchNumbers = <<>>,
                             !.fallback = FALSE, !.outcome = "none",
                             !.orderNumbers = <<>>]
    IN  [entered EXCEPT !.pc = AllocLoopTest(entered)]

\* the retry forgets attempts++
AllocRetry_NoCount(l) == [l EXCEPT !.pc = AllocLoopTest(l)]

\* one more attempt: attempts++ and back to the loop test
AllocRetry(l) ==
    LET retried == [l EXCEPT !.attempts = l.attempts + 1]
    IN  [retried EXCEPT !.pc = AllocLoopTest(retried)]

\* where a returning allocator call resumes its caller
AllocReturn(l, numbers) ==
    [l EXCEPT !.outcome = "returned", !.orderNumbers = numbers,
              !.pc = CASE l.kind = "create" -> "create_save"
                       [] l.kind = "update" -> "update_save"
                       [] OTHER -> "done"]

\* throw new Error("Unable to generate unique order numbers ..."): the
\* handlers' catch blocks answer 400
AllocThrown(l) ==
    [l EXCEPT !.outcome = "thrown", !.pc = "done",
              !.response = IF l.kind = "alloc" THEN 0 ELSE 400,
              !.error = IF l.kind = "alloc" THEN "none" ELSE "allocator"]

\* await Order.findOne(...).sort(...): the batch after the last number
AllocFindLast(p) ==
    /\ proc[p].pc = "alloc_find_last"
    /\ proc' = [proc EXCEPT ![p].batchNumbers =
                   BatchNumbers(proc[p].year,
                                StartSequence(orders, proc[p].year),
                                proc[p].count),
                            ![p].pc = "alloc_check"]
    /\ UNCHANGED <<gen, orders, nextId, audits>>

\* await Order.find({$in}): return the batch when none exists, else retry
AllocCheck(p) ==
    /\ proc[p].pc = "alloc_check"
    /\ proc' = [proc EXCEPT ![p] =
                   IF ExistingOrders(orders, proc[p].batchNumbers) = {}
                   THEN AllocReturn(proc[p], proc[p].batchNumbers)
                   ELSE AllocRetry(proc[p])]
    /\ UNCHANGED <<gen, orders, nextId, audits>>

\* after the loop: the fallback batch seeded with Date.now()
AllocFallback(p) ==
    /\ proc[p].pc = "alloc_fallback"
    /\ \E timestamp \in TimestampBase..(TimestampBase + MaxClockDrift) :
        LET fallbackNumbers ==
                BatchNumbers(proc[p].year, timestamp, proc[p].count)
            l == [proc[p] EXCEPT !.fallback = TRUE,
                                 !.batchNumbers = fallbackNumbers]
        IN  proc' = [proc EXCEPT ![p] =
                        IF ExistingOrders(orders, fallbackNumbers) = {}
                        THEN AllocReturn(l, fallbackNumbers)
                        ELSE AllocThrown(l)]
    /\ UNCHANGED <<gen, orders, nextId, audits>>

\* the throw at the end of the function
AllocThrow(p) ==
    /\ proc[p].pc = "alloc_throw"
    /\ proc' = [proc EXCEPT ![p] = AllocThrown(proc[p])]
    /\ UNCHANGED <<gen, orders, nextId, audits>>

\* a database call of the loop rejects: the catch block counts an attempt;
\* the fallback's find is outside the try, its error leaves the function
AllocDbError(p) ==
    /\ proc[p].pc \in {"alloc_find_last", "alloc_check", "alloc_fallback"}
    /\ proc[p].dbErrors < MaxDbErrors
    /\ LET l == [proc[p] EXCEPT !.dbErrors = proc[p].dbErrors + 1]
       IN  proc' = [proc EXCEPT ![p] =
                       IF l.pc = "alloc_fallback"
                       THEN AllocThrown(l)
                       ELSE AllocRetry(l)]
    /\ UNCHANGED <<gen, orders, nextId, audits>>

(***************************************************************************)
(* Order documents and the orders collection                               *)
(***************************************************************************)
\* the values of the OrderStatus enum
OrderStatusEnum ==
    {"draft", "pending", "in_progress", "out_for_delivery", "delivered",
     "denied_by_customer", "customer_not_available", "completed",
     "cancelled", "paused"}

\* an absent date (undefined in the request body)
NoDate == 0

NewOrder(id, orderNumber, startDate, endDate, frequency, status, mainOrder, original) ==
    [id |-> id, orderNumber |-> orderNumber, startDate |-> startDate,
     endDate |-> endDate, frequency |-> frequency, status |-> status,
     mainOrder |-> mainOrder, originalOrderNumber |-> original,
     assignedDriver |-> NULL, deliverySequence |-> 0,
     beforeImages |-> <<>>, afterImages |-> <<>>]

\* mongoose validation on save: the enums of status and frequency (an
\* undefined frequency passes), the required startDate
ValidOrder(doc) ==
    /\ doc.status \in OrderStatusEnum
    /\ doc.frequency \in FrequencyEnum \cup {NULL}
    /\ doc.startDate # NoDate

\* the collection has no index on orderNumber
UniqueIndexAdmits_NoIndex(docs, doc) == TRUE

\* orderNumber: {unique: true}: the insert is refused (E11000) when a stored
\* document has the same orderNumber
UniqueIndexAdmits(docs, doc) ==
    \A o \in docs : o.orderNumber # doc.orderNumber

\* new Date().getFullYear() and new Date() at the time of the requests
CurrentYear == BaseYear

Today == MakeDay(BaseYear, 0, 1)

\* the handler answers and ends
Respond(l, code, error) ==
    [l EXCEPT !.pc = "done", !.response = code, !.error = error]

(***************************************************************************)
(* The audit trail (utils/auditService)                                    *)
(***************************************************************************)
\* logChange lets the error of Audit.create escape to its caller
LogChange_Rethrows(ok) == IF ok THEN "written" ELSE "thrown"

\* AuditService.logChange: Audit.create inside try/catch; ok tells whether
\* Audit.create succeeds, a failure is logged with console.error and dropped
LogChange(ok) == IF ok THEN "written" ELSE "logged"

\* AuditService.createAuditLogData for a document of the orders collection
AuditEntry(action, id, changes) ==
    [action |-> action, collectionName |-> "orders", documentId |-> id,
     changes |-> changes]

\* whether a field of an object is undefined
IsAbsent(field, value) ==
    CASE field \in {"frequency", "status", "assignedDriver"} -> value = NULL
      [] field \in {"startDate", "endDate"} -> value = NoDate
      [] field \in {"orderNumber", "originalOrderNumber"} -> value = NoOrderNumber
      [] field = "deliverySequence" -> value = 0
      [] OTHER -> FALSE

\* JSON.stringify(obj?.[key]): nothing for an absent key or undefined value
Stringify(obj, field) ==
    IF field \in DOMAIN obj /\ ~IsAbsent(field, obj[field])
    THEN <<obj[field]>> ELSE <<>>

\* const changes: IAuditChange[] = []
NoChanges == <<>>

\* AuditService.compareObjects: for the keys of either object whose values
\* differ, the keys that start with an underscore (_id, __v) left out, the
\* old and the new value
CompareObjects(oldObj, newObj) ==
    [field \in {f \in (DOMAIN oldObj \cup DOMAIN newObj) \ {"id"} :
                   Stringify(oldObj, f) # Stringify(newObj, f)} |->
        [oldValue |-> Stringify(oldObj, field), newValue |-> Stringify(newObj, field)]]

\* the calls of logChange that throw, among those of one request
ThrowingCalls(oks) == {i \in DOMAIN oks : LogChange(oks[i]) = "thrown"}

\* the calls of logChange a request makes: up to the first that throws
CallsMade(oks) == {i \in DOMAIN oks : \A j \in ThrowingCalls(oks) : i <= j}

\* the audit records the calls of one request leave in the collection
WrittenEntries(entries, oks) ==
    LET written[i \in 0..Len(entries)] ==
            IF i = 0 THEN <<>>
            ELSE IF i \in CallsMade(oks) /\ LogChange(oks[i]) = "written"
            THEN Append(written[i - 1], entries[i])
            ELSE written[i - 1]
    IN  written[Len(entries)]

\* the end of a handler after its mutation: when the request has a user,
\* one logChange per entry, each Audit.create succeeding or failing, then
\* the answer; an error thrown on the way is answered by the catch block
AuditAndAnswer(p, l, entries, code) ==
    IF l.req.user = NULL
    THEN /\ proc' = [proc EXCEPT ![p] = Respond(l, code, "none")]
         /\ audits' = audits
    ELSE \E oks \in [1..Len(entries) -> BOOLEAN] :
            /\ audits' = audits \o WrittenEntries(entries, oks)
            /\ proc' = [proc EXCEPT ![p] =
                   LET logged == [l EXCEPT !.auditErrors =
                                     Cardinality({i \in CallsMade(oks) : ~oks[i]})]
                   IN  IF ThrowingCalls(oks) # {}
                       THEN Respond(logged, 400, "audit")
                       ELSE Respond(logged, code, "none")]

(***************************************************************************)
(* createOrder                                                             *)
(***************************************************************************)
\* the first missing mandatory field of a non-draft order, NULL when none
FirstMissingField(items, startDate, endDate, frequency) ==
    CASE items = NULL -> "items"
      [] startDate = NoDate -> "startDate"
      [] endDate = NoDate -> "endDate"
      [] frequency = NULL -> "frequency"
      [] OTHER -> NULL

\* the items are not looked up
InvalidItem_NotChecked(items) == FALSE

\* Item.findById for each line item: throws when an Item is not found
\* ("unknown") or has isActive = false ("inactive")
InvalidItem(items) == items # "active"

\* from the start of the handler to the call of the allocator: the checks
\* of the customer, of the mandatory fields and of the items, and the dates
CreateBegin(p, r) ==
    LET l == [IdleLocal EXCEPT !.kind = "create", !.req = r]
    IN
    /\ proc' = [proc EXCEPT ![p] =
         CASE r.customer = NULL -> Respond(l, 400, "customer_required")
           [] r.customer = "unknown" -> Respond(l, 404, "customer_not_found")
           [] r.customer # "active" -> Respond(l, 400, "customer_not_active")
           [] r.status = "draft" -> AllocEnter(l, CurrentYear, 1)
           [] FirstMissingField(r.items, r.startDate, r.endDate, r.frequency) # NULL ->
                  Respond(l, 400, "missing_field")
           [] r.items = "empty" -> Respond(l, 400, "items_required")
           [] InvalidItem(r.items) -> Respond(l, 400, "item_invalid")
           [] LoopsForever(r.startDate, r.endDate, r.frequency) ->
                  [l EXCEPT !.pc = "hung"]
           [] OTHER ->
                  LET deliveryDates ==
                          generateRecurringDates(r.startDate, r.endDate, r.frequency)
                  IN  AllocEnter([l EXCEPT !.dates = deliveryDates], CurrentYear,
                                 Len(deliveryDates))]
    /\ UNCHANGED <<gen, orders, nextId, audits>>

\* every order is saved without a reference to the first one
CreateDoc_NoLineage(l, id, i) ==
    NewOrder(id, l.orderNumbers[i],
             IF l.req.status = "draft" THEN l.req.startDate ELSE l.dates[i],
             IF i = 1 THEN l.req.endDate ELSE l.dates[i],
             l.req.frequency,
             IF l.req.status = "draft" THEN "draft" ELSE "pending",
             i = 1, NoOrderNumber)

\* every order is saved with the status of the request
CreateDoc_RequestStatus(l, id, i) ==
    NewOrder(id, l.orderNumbers[i],
             IF l.req.status = "draft" THEN l.req.startDate ELSE l.dates[i],
             IF i = 1 THEN l.req.endDate ELSE l.dates[i],
             l.req.frequency, l.req.status, i = 1,
             IF i = 1 THEN NoOrderNumber ELSE l.orderNumbers[1])

\* the document createOrder builds for position i of its loop (the single
\* draft order when the request is a draft)
CreateDoc(l, id, i) ==
    IF l.req.status = "draft"
    THEN NewOrder(id, l.orderNumbers[1],
                  IF l.req.startDate # NoDate THEN l.req.startDate ELSE Today,
                  IF l.req.endDate # NoDate THEN l.req.endDate ELSE Today,
                  l.req.frequency, "draft", TRUE, NoOrderNumber)
    ELSE NewOrder(id, l.orderNumbers[i], l.dates[i],
                  IF i = 1 THEN l.req.endDate ELSE l.dates[i],
                  l.req.frequency, "pending", i = 1,
                  IF i = 1 THEN NoOrderNumber ELSE l.orderNumbers[1])

\* await order.save() of the next order; after the last one the 201 answer
CreateSave(p) ==
    /\ proc[p].pc = "create_save"
    /\ LET l == proc[p]
           i == Len(l.created) + 1
           doc == CreateDoc(l, nextId, i)
       IN  IF ~ValidOrder(doc)
           THEN /\ proc' = [proc EXCEPT ![p] = Respond(l, 400, "validation")]
                /\ UNCHANGED <<orders, nextId, audits>>
           ELSE IF ~UniqueIndexAdmits(orders, doc)
           THEN /\ proc' = [proc EXCEPT ![p] = Respond(l, 400, "duplicate")]
                /\ UNCHANGED <<orders, nextId, audits>>
           ELSE /\ orders' = orders \cup {doc}
                /\ nextId' = nextId + 1
                /\ LET saved == [l EXCEPT !.created = Append(l.created, doc.id)]
                   IN  IF i = l.count
                       THEN AuditAndAnswer(p, saved,
                                [k \in 1..Len(saved.created) |->
                                    AuditEntry("create", saved.created[k], NoChanges)],
                                201)
                       ELSE /\ proc' = [proc EXCEPT ![p] = saved]
                            /\ audits' = audits
    /\ UNCHANGED gen

(***************************************************************************)
(* updateOrder                                                             *)
(***************************************************************************)
FindById(docs, id) ==
    IF \E o \in docs : o.id = id THEN CHOOSE o \in docs : o.id = id ELSE NoOrder

\* the body's value of a field when the body has it, else the order's
Merged(r, order, field) ==
    IF field \in r.updates THEN r[field] ELSE order[field]

\* the deleteMany filter without its status
PendingMembers_AnyStatus(docs, order) ==
    {o \in docs : o.originalOrderNumber = order.orderNumber /\ ~o.mainOrder}

\* Order.deleteMany({originalOrderNumber, mainOrder: false, status: pending})
PendingMembers(docs, order) ==
    {o \in docs : /\ o.originalOrderNumber = order.orderNumber
                  /\ ~o.mainOrder
                  /\ o.status = "pending"}

\* Order.findOne({orderNumber: order.originalOrderNumber, mainOrder: true})
MainOrderOf(docs, order) ==
    {o \in docs : o.orderNumber = order.originalOrderNumber /\ o.mainOrder}

IsRecurringUpdate(r) == r.updates \cap {"frequency", "startDate", "endDate"} # {}

\* updates.forEach(update => order[update] = req.body[update])
ApplyUpdates(order, r) ==
    [field \in DOMAIN order |->
        IF field \in r.updates THEN r[field] ELSE order[field]]

\* the handler has no branch for series members
RedirectsToMainOrder_Never(docs, r, order) == FALSE

\* the else-if branch of a schedule update on a series member: "Cannot
\* update recurring order directly. Please update the main order instead."
RedirectsToMainOrder(docs, r, order) ==
    /\ IsRecurringUpdate(r)
    /\ ~order.mainOrder
    /\ order.status # "draft"
    /\ MainOrderOf(docs, order) # {}

\* from the start of the handler to the call of the allocator or, when no
\* series is regenerated, to the save of the order
UpdateBegin(p, r) ==
    LET l == [IdleLocal EXCEPT !.kind = "update", !.req = r]
        order == FindById(orders, r.target)
        found == [l EXCEPT !.order = order]
        newStartDate == Merged(r, order, "startDate")
        newEndDate == Merged(r, order, "endDate")
        newFrequency == Merged(r, order, "frequency")
        pending == PendingMembers(orders, order)
        rescheduled == [order EXCEPT !.startDate = newStartDate,
                                     !.endDate = newEndDate,
                                     !.frequency = newFrequency]
    IN
    IF order = NoOrder
    THEN /\ proc' = [proc EXCEPT ![p] = Respond(l, 404, "order_not_found")]
         /\ UNCHANGED <<gen, orders, nextId, audits>>
    ELSE IF /\ order.status # "draft"
            /\ FirstMissingField("active", newStartDate, newEndDate, newFrequency) # NULL
    THEN /\ proc' = [proc EXCEPT ![p] = Respond(found, 400, "missing_field")]
         /\ UNCHANGED <<gen, orders, nextId, audits>>
    ELSE IF IsRecurringUpdate(r) /\ order.mainOrder
    THEN /\ orders' = orders \ pending
         /\ proc' = [proc EXCEPT ![p] =
              LET deleted == [found EXCEPT !.removed = {o.id : o \in pending}]
              IN  IF newStartDate = NoDate \/ newEndDate = NoDate \/ newFrequency = NULL
                  THEN [deleted EXCEPT !.pc = "update_finish"]
                  ELSE IF LoopsForever(newStartDate, newEndDate, newFrequency)
                  THEN [deleted EXCEPT !.pc = "hung"]
                  ELSE LET deliveryDates ==
                               generateRecurringDates(newStartDate, newEndDate,
                                                      newFrequency)
                       IN  AllocEnter([deleted EXCEPT !.order = rescheduled,
                                                      !.dates = deliveryDates],
                                      CurrentYear, Len(deliveryDates) - 1)]
         /\ UNCHANGED <<gen, nextId, audits>>
    ELSE IF RedirectsToMainOrder(orders, r, order)
    THEN /\ proc' = [proc EXCEPT ![p] = Respond(found, 400, "update_main_order")]
         /\ UNCHANGED <<gen, orders, nextId, audits>>
    ELSE /\ proc' = [proc EXCEPT ![p] = [found EXCEPT !.pc = "update_finish"]]
         /\ UNCHANGED <<gen, orders, nextId, audits>>

\* the loop does not skip the first date
MemberDoc_FirstDateToo(l, id, i) ==
    NewOrder(id, l.orderNumbers[i], l.dates[i], l.dates[i],
             l.order.frequency, "pending", FALSE, l.order.orderNumber)

\* the i-th series member updateOrder regenerates: new Order({...}) for
\* deliveryDates[i] (0-based), the first date being the main order's
MemberDoc(l, id, i) ==
    NewOrder(id, l.orderNumbers[i], l.dates[i + 1], l.dates[i + 1],
             l.order.frequency, "pending", FALSE, l.order.orderNumber)

\* await recurringOrder.save() of the next regenerated series member
UpdateSave(p) ==
    /\ proc[p].pc = "update_save"
    /\ LET l == proc[p]
           i == Len(l.created) + 1
           doc == MemberDoc(l, nextId, i)
       IN  IF ~ValidOrder(doc)
           THEN /\ proc' = [proc EXCEPT ![p] = Respond(l, 400, "validation")]
                /\ UNCHANGED <<orders, nextId>>
           ELSE IF ~UniqueIndexAdmits(orders, doc)
           THEN /\ proc' = [proc EXCEPT ![p] = Respond(l, 400, "duplicate")]
                /\ UNCHANGED <<orders, nextId>>
           ELSE /\ orders' = orders \cup {doc}
                /\ nextId' = nextId + 1
                /\ LET saved == [l EXCEPT !.created = Append(l.created, doc.id)]
                   IN  proc' = [proc EXCEPT ![p] =
                                   IF i = l.count
                                   THEN [saved EXCEPT !.pc = "update_finish"]
                                   ELSE saved]
    /\ UNCHANGED <<gen, audits>>

\* oldValues: the fields of the order the handler keeps for the audit
OldValues(order) ==
    [field \in {"startDate", "endDate", "frequency", "assignedDriver", "status"} |->
        order[field]]

\* the updates applied to the order, await order.save(), the audit record,
\* the answer
UpdateFinish(p) ==
    /\ proc[p].pc = "update_finish"
    /\ LET l == proc[p]
           updated == ApplyUpdates(l.order, l.req)
       IN  IF ~ValidOrder(updated)
           THEN /\ proc' = [proc EXCEPT ![p] = Respond(l, 400, "validation")]
                /\ UNCHANGED <<orders, audits>>
           ELSE /\ orders' = {o \in orders : o.id # updated.id} \cup {updated}
                /\ AuditAndAnswer(p, [l EXCEPT !.order = updated],
                       <<AuditEntry("update", updated.id,
                                    CompareObjects(OldValues(FindById(orders, updated.id)),
                                                   updated))>>,
                       200)
    /\ UNCHANGED <<gen, nextId>>

(***************************************************************************)
(* updateOrderStatus and deleteOrder                                       *)
(***************************************************************************)
UpdateOrderStatus(p, r) ==
    LET l == [IdleLocal EXCEPT !.kind = "status", !.req = r]
        order == FindById(orders, r.target)
    IN
    IF r.status \notin OrderStatusEnum
    THEN /\ proc' = [proc EXCEPT ![p] = Respond(l, 400, "invalid_status")]
         /\ UNCHANGED <<gen, orders, nextId, audits>>
    ELSE IF order = NoOrder
    THEN /\ proc' = [proc EXCEPT ![p] = Respond(l, 404, "order_not_found")]
         /\ UNCHANGED <<gen, orders, nextId, audits>>
    ELSE LET updated == [order EXCEPT !.status = r.status]
         IN  /\ orders' = (orders \ {order}) \cup {updated}
             /\ AuditAndAnswer(p, [l EXCEPT !.order = updated],
                    <<AuditEntry("update", updated.id,
                                 CompareObjects([status |-> order.status],
                                                [status |-> updated.status]))>>,
                    200)
             /\ UNCHANGED <<gen, nextId>>

\* the series members of a main order: a main order's cascade
RecurringOrders(docs, orderNumber) ==
    {o \in docs : o.originalOrderNumber = orderNumber /\ ~o.mainOrder}

\* only the order of the request is deleted
OrdersToDelete_OnlyTarget(docs, order) == {order}

\* a targeted member takes its main order with it but not its siblings
OrdersToDelete_NoSiblings(docs, order) ==
    IF order.mainOrder
    THEN {order} \cup RecurringOrders(docs, order.orderNumber)
    ELSE {order} \cup MainOrderOf(docs, order)

\* ordersToDelete
OrdersToDelete(docs, order) ==
    IF order.mainOrder
    THEN {order} \cup RecurringOrders(docs, order.orderNumber)
    ELSE IF order.originalOrderNumber # NoOrderNumber
            /\ MainOrderOf(docs, order) # {}
    THEN MainOrderOf(docs, order)
             \cup RecurringOrders(docs, order.originalOrderNumber)
    ELSE {order}

\* the _ids of ordersToDelete in the order of the array: the main order
\* (or the lone order of the request) first, then the members as stored
DeletionOrder(docs, order) ==
    LET first == IF order.mainOrder \/ \A o \in docs : ~o.mainOrder
                 THEN order
                 ELSE CHOOSE o \in docs : o.mainOrder
        ids == {o.id : o \in docs \ {first}}
        rest[i \in 0..Cardinality(ids)] ==
            IF i = 0 THEN <<>>
            ELSE Append(rest[i - 1],
                        CHOOSE id \in ids :
                            Cardinality({other \in ids : other < id}) = i - 1)
    IN  <<first.id>> \o rest[Cardinality(ids)]

\* every status may be deleted
Deletable_Always(order) == TRUE

\* "Allow deletion of pending and draft orders"
Deletable(order) == order.status = "pending" \/ order.status = "draft"

DeleteOrder(p, r) ==
    LET l == [IdleLocal EXCEPT !.kind = "delete", !.req = r]
        order == FindById(orders, r.target)
        found == [l EXCEPT !.order = order]
    IN
    IF order = NoOrder
    THEN /\ proc' = [proc EXCEPT ![p] = Respond(l, 404, "order_not_found")]
         /\ UNCHANGED <<gen, orders, nextId, audits>>
    ELSE IF ~Deletable(order)
    THEN /\ proc' = [proc EXCEPT ![p] = Respond(found, 400, "not_deletable")]
         /\ UNCHANGED <<gen, orders, nextId, audits>>
    ELSE LET ordersToDelete == OrdersToDelete(orders, order)
         IN  /\ orders' = orders \ ordersToDelete
             /\ AuditAndAnswer(p, [found EXCEPT !.removed =
                                               {o.id : o \in ordersToDelete},
                                           !.ordersToDelete = ordersToDelete],
                    [k \in 1..Cardinality(ordersToDelete) |->
                        AuditEntry("delete", DeletionOrder(ordersToDelete, order)[k], NoChanges)],
                    200)
             /\ UNCHANGED <<gen, nextId>>

(***************************************************************************)
(* revertChange (controllers/audit.controller, AuditService.revertChange)  *)
(***************************************************************************)
\* the value a field of the stored document has once it was set to null
NullValue(field) ==
    CASE field \in {"frequency", "status", "assignedDriver"} -> NULL
      [] field \in {"startDate", "endDate"} -> NoDate
      [] field \in {"orderNumber", "originalOrderNumber"} -> NoOrderNumber
      [] field = "deliverySequence" -> 0
      [] field = "mainOrder" -> FALSE
      [] OTHER -> <<>>

\* the value of a field that was set to a recorded value: oldValue and
\* newValue of a change are null when the compared object had no such key
Restored(field, recorded) ==
    IF Len(recorded) = 0 THEN NullValue(field) ELSE recorded[1]

\* updateData replays the new values of the record
UpdateData_NewValues(changes) ==
    [field \in DOMAIN changes |-> changes[field].newValue]

\* audit.changes.forEach(change => updateData[change.field] = change.oldValue)
UpdateData(changes) ==
    [field \in DOMAIN changes |-> changes[field].oldValue]

\* the stored document after findByIdAndUpdate(audit.documentId, updateData)
ApplyUpdateData(order, updateData) ==
    [field \in DOMAIN order |->
        IF field \in DOMAIN updateData THEN Restored(field, updateData[field])
        ELSE order[field]]

\* audit.changes.map(change => ({field, oldValue: change.newValue,
\* newValue: change.oldValue}))
Inverted(changes) ==
    [field \in DOMAIN changes |->
        [oldValue |-> changes[field].newValue, newValue |-> changes[field].oldValue]]

\* the record of the revert and the answer: this.logChange({...})
RevertLogged(p, l, audit) ==
    \E ok \in BOOLEAN :
        /\ audits' = IF LogChange(ok) = "written"
                     THEN Append(audits, AuditEntry("update", audit.documentId,
                                                    Inverted(audit.changes)))
                     ELSE audits
        /\ proc' = [proc EXCEPT ![p] =
               LET logged == [l EXCEPT !.auditErrors = IF ok THEN 0 ELSE 1]
               IN  IF LogChange(ok) = "thrown" THEN Respond(logged, 400, "audit")
                   ELSE Respond(logged, 200, "none")]

RevertChange(p, r) ==
    LET l == [IdleLocal EXCEPT !.kind = "revert", !.req = r]
    IN
    /\ IF r.auditId \notin 1..Len(audits)
       THEN /\ proc' = [proc EXCEPT ![p] = Respond(l, 404, "audit_not_found")]
            /\ UNCHANGED <<orders, audits>>
       ELSE LET audit == audits[r.auditId]
                stored == FindById(orders, audit.documentId)
                updated == ApplyUpdateData(stored, UpdateData(audit.changes))
                found == [l EXCEPT !.order = stored]
            IN  CASE audit.action = "create" ->
                         /\ orders' = orders \ {stored}
                         /\ RevertLogged(p, found, audit)
                  [] audit.action = "delete" ->
                         /\ proc' = [proc EXCEPT ![p] =
                                Respond(l, 400, "revert_delete_unsupported")]
                         /\ UNCHANGED <<orders, audits>>
                  [] OTHER ->
                         IF stored = NoOrder
                         THEN /\ orders' = orders
                              /\ RevertLogged(p, found, audit)
                         ELSE IF ~UniqueIndexAdmits(orders \ {stored}, updated)
                         THEN /\ proc' = [proc EXCEPT ![p] =
                                     Respond(found, 400, "duplicate")]
                              /\ UNCHANGED <<orders, audits>>
                         ELSE /\ orders' = (orders \ {stored}) \cup {updated}
                              /\ RevertLogged(p, found, audit)
    /\ UNCHANGED <<gen, nextId>>

(***************************************************************************)
(* assignOrdersToDriver and updateDeliverySequence                         *)
(***************************************************************************)
\* the drivers collection
Drivers == {"d1", "d2"}

\* Order.updateMany({_id: {$in: orderIds}}, {$set: {assignedDriver}}): 404
\* for an unknown driver, 400 when no document was modified
AssignOrdersToDriver(p, r) ==
    LET l == [IdleLocal EXCEPT !.kind = "assign", !.req = r]
        modified == {o \in orders : /\ o.id \in SeqRange(r.orderIds)
                                    /\ o.assignedDriver # r.driver}
    IN
    /\ IF r.driver \notin Drivers
       THEN /\ proc' = [proc EXCEPT ![p] = Respond(l, 404, "driver_not_found")]
            /\ orders' = orders
       ELSE /\ orders' = (orders \ modified)
                            \cup {[o EXCEPT !.assignedDriver = r.driver] : o \in modified}
            /\ proc' = [proc EXCEPT ![p] =
                           IF modified = {}
                           THEN Respond(l, 400, "no_orders_updated")
                           ELSE Respond(l, 200, "none")]
    /\ UNCHANGED <<gen, nextId, audits>>

\* the find without the driver in its filter
MatchingOrders_AnyDriver(docs, orderIds, driver) ==
    {o \in docs : o.id \in SeqRange(orderIds)}

\* Order.find({_id: {$in: orderIds}, assignedDriver: driverId})
MatchingOrders(docs, orderIds, driver) ==
    {o \in docs : o.id \in SeqRange(orderIds) /\ o.assignedDriver = driver}

\* the documents after findByIdAndUpdate(orderId, {$set: {deliverySequence:
\* index + 1}}) for every position of the list, in the order of the list
RECURSIVE Resequenced(_, _, _)
Resequenced(docs, orderIds, index) ==
    IF index = Len(orderIds) THEN docs
    ELSE Resequenced({IF o.id = orderIds[index + 1]
                      THEN [o EXCEPT !.deliverySequence = index + 1]
                      ELSE o : o \in docs},
                     orderIds, index + 1)

UpdateDeliverySequence(p, r) ==
    LET l == [IdleLocal EXCEPT !.kind = "sequence", !.req = r]
        found == MatchingOrders(orders, r.orderIds, r.driver)
        refused == CASE r.orderIds = <<>> -> <<400, "invalid_order_ids">>
                     [] r.driver = NULL -> <<400, "driver_required">>
                     [] r.deliveryDate = NoDate -> <<400, "delivery_date_required">>
                     [] r.driver \notin Drivers -> <<404, "driver_not_found">>
                     [] Cardinality(found) # Len(r.orderIds) ->
                            <<400, "orders_mismatch">>
                     [] OTHER -> <<200, "none">>
    IN
    /\ orders' = IF refused[1] = 200 THEN Resequenced(orders, r.orderIds, 0)
                 ELSE orders
    /\ proc' = [proc EXCEPT ![p] = Respond(l, refused[1], refused[2])]
    /\ UNCHANGED <<gen, nextId, audits>>

(***************************************************************************)
(* updateOrderImages                                                       *)
(***************************************************************************)
\* the most entries of beforeImages and of afterImages
MaxImages == 10

\* a request without fileName
NoFileName == 0

\* const fieldName = imageType === 'before' ? 'beforeImages' : 'afterImages'
FieldName(imageType) ==
    IF imageType = "before" THEN "beforeImages" ELSE "afterImages"

\* action, imageType and fileName of a single add or remove are all there
SingleImage(r, action) ==
    /\ r.action = action
    /\ r.fileName # NoFileName
    /\ r.imageType \in {"before", "after"}

\* if (currentImages.length >= 10)
ImageLimitReached(images) == Len(images) >= MaxImages

\* $pull: every entry equal to fileName leaves the array
Pull(images, fileName) == SelectSeq(images, LAMBDA f : f # fileName)

\* the stored document after findByIdAndUpdate(orderId, updates): the
\* operators work on the document as it is stored now and no validator runs
ApplyImageUpdates(order, u) ==
    CASE u.op = "push" ->
             [order EXCEPT ![u.field] = Append(order[u.field], u.fileName)]
      [] u.op = "pull" ->
             [order EXCEPT ![u.field] = Pull(order[u.field], u.fileName)]
      [] OTHER ->
             [order EXCEPT
                 !.beforeImages = IF "beforeImages" \in u.fields
                                  THEN u.beforeImages ELSE @,
                 !.afterImages = IF "afterImages" \in u.fields
                                 THEN u.afterImages ELSE @]

\* from the arrival of the request to the await of findByIdAndUpdate
ImageBegin(p, r) ==
    LET l == [IdleLocal EXCEPT !.kind = "images", !.req = r]
        order == FindById(orders, r.target)
        pending(u) == [l EXCEPT !.pc = "image_update", !.order = order,
                                !.imageUpdates = u]
    IN
    /\ proc' = [proc EXCEPT ![p] =
           IF order = NoOrder THEN Respond(l, 404, "not_found")
           ELSE IF SingleImage(r, "add")
           THEN IF ImageLimitReached(order[FieldName(r.imageType)])
                THEN Respond(l, 400, "image_limit_reached")
                ELSE pending([NoImageUpdates EXCEPT !.op = "push",
                                  !.field = FieldName(r.imageType),
                                  !.fileName = r.fileName])
           ELSE IF SingleImage(r, "remove")
           THEN pending([NoImageUpdates EXCEPT !.op = "pull",
                             !.field = FieldName(r.imageType),
                             !.fileName = r.fileName])
           ELSE IF r.updates \cap {"beforeImages", "afterImages"} # {}
           THEN IF "beforeImages" \in r.updates /\ Len(r.beforeImages) > MaxImages
                THEN Respond(l, 400, "too_many_before_images")
                ELSE IF "afterImages" \in r.updates /\ Len(r.afterImages) > MaxImages
                THEN Respond(l, 400, "too_many_after_images")
                ELSE pending([NoImageUpdates EXCEPT !.op = "set",
                                  !.fields = r.updates,
                                  !.beforeImages = r.beforeImages,
                                  !.afterImages = r.afterImages])
           ELSE Respond(l, 400, "invalid_request")]
    /\ UNCHANGED <<gen, orders, nextId, audits>>

\* findByIdAndUpdate, the audit record and the answer
ImageUpdate(p) ==
    /\ proc[p].pc = "image_update"
    /\ LET l == proc[p]
           stored == FindById(orders, l.order.id)
           updated == ApplyImageUpdates(stored, l.imageUpdates)
       IN  IF stored = NoOrder
           THEN /\ orders' = orders
                /\ audits' = audits
                /\ proc' = [proc EXCEPT ![p] =
                       IF l.req.user = NULL THEN Respond(l, 200, "none")
                       ELSE Respond(l, 400, "type_error")]
           ELSE /\ orders' = (orders \ {stored}) \cup {updated}
                /\ AuditAndAnswer(p, l,
                       <<AuditEntry("update", updated.id,
                                    CompareObjects([beforeImages |-> l.order.beforeImages,
                                                    afterImages |-> l.order.afterImages],
                                                   updated))>>,
                       200)
    /\ UNCHANGED <<gen, nextId>>

(***************************************************************************)
(* DateSpec: generateRecurringDates as a pure function of its inputs       *)
(***************************************************************************)
FirstDay == MakeDay(BaseYear, 0, 1)

GenStarts ==
    {FirstDay + k : k \in 0..MaxStartOffset}
        \cup {MakeDay(BaseYear, 0, 31), MakeDay(BaseYear, 1, 28) + 1}

GenFrequencies == SwitchFrequencies \cup FrequencyEnum

\* the frequencies that step by calendar months or years
CalendarFrequencies == {"monthly", "quarterly", "semi_annually", "annually"}

\* spans long enough for several calendar steps (a leap day included)
LongSpans == {MaxSpan + 60, MaxSpan + 125, MaxSpan + 310, MaxSpan + 680}

GenInputs ==
    [start : GenStarts, span : -1..MaxSpan, frequency : GenFrequencies]
        \cup [start : GenStarts, span : LongSpans,
              frequency : CalendarFrequencies]

DateInit ==
    /\ \E input \in GenInputs :
           gen = [start |-> input.start, span |-> input.span,
                  frequency |-> input.frequency, state |-> "ready",
                  dates |-> <<>>]
    /\ orders = {}
    /\ nextId = 1
    /\ proc = [p \in {1} |-> IdleLocal]
    /\ audits = <<>>

GenEnd(g) == g.start + g.span

DateGenerate ==
    /\ gen.state = "ready"
    /\ IF LoopsForever(gen.start, GenEnd(gen), gen.frequency)
       THEN gen' = [gen EXCEPT !.state = "looping"]
       ELSE gen' = [gen EXCEPT !.state = "returned",
                        !.dates = generateRecurringDates(gen.start, GenEnd(gen),
                                                         gen.frequency)]
    /\ UNCHANGED <<orders, nextId, proc, audits>>

DateNext == DateGenerate

DateSpec == DateInit /\ [][DateNext]_vars

(***************************************************************************)
(* AllocSpec: one call of generateUniqueOrderNumbers against a stored set  *)
(***************************************************************************)
\* sequences the stored numbers of the call's year are drawn from: below,
\* at and above the 4-digit width, and one equal to a fallback number
StoredSequences == <<1, 2, 9999, 10000, TimestampBase + 1>>

StoredDoc(k) ==
    NewOrder(k,
             IF k = 0 THEN FormatOrderNumber(BaseYear - 1, 2)
             ELSE FormatOrderNumber(BaseYear, StoredSequences[k]),
             Today, Today, NULL, "draft", TRUE, NoOrderNumber)

AllocInit ==
    /\ gen = [start |-> FirstDay, span |-> 0, frequency |-> "one_time",
              state |-> "ready", dates |-> <<>>]
    /\ \E ks \in SUBSET (0..Len(StoredSequences)) :
           orders = {StoredDoc(k) : k \in ks}
    /\ nextId = Len(StoredSequences) + 1
    /\ proc = [p \in {1} |-> IdleLocal]
    /\ audits = <<>>

AllocCall(p) ==
    /\ proc[p].pc = "idle"
    /\ \E year \in {BaseYear - 1, BaseYear}, count \in 0..MaxCount :
           proc' = [proc EXCEPT ![p] =
                       AllocEnter([proc[p] EXCEPT !.kind = "alloc"], year, count)]
    /\ UNCHANGED <<gen, orders, nextId, audits>>

AllocNext ==
    \/ \E p \in DOMAIN proc : AllocCall(p)
    \/ \E p \in DOMAIN proc : AllocFindLast(p)
    \/ \E p \in DOMAIN proc : AllocCheck(p)
    \/ \E p \in DOMAIN proc : AllocFallback(p)
    \/ \E p \in DOMAIN proc : AllocThrow(p)
    \/ \E p \in DOMAIN proc : AllocDbError(p)

AllocSpec == AllocInit /\ [][AllocNext]_vars

(***************************************************************************)
(* ConcSpec: concurrent createOrder requests, interleaved at their awaits  *)
(***************************************************************************)
Procs == {1, 2}

ConcRequests ==
    [customer : {"active"}, items : {"active"}, status : {"draft", "pending"},
     startDate : {Today}, endDate : {Today, Today + 7},
     frequency : {"weekly", "every_2nd_week"}, target : {0}, updates : {{}},
     user : {NULL}, orderIds : {<<>>}, driver : {NULL}, deliveryDate : {0},
     action : {NULL}, imageType : {NULL}, fileName : {0},
     beforeImages : {<<>>}, afterImages : {<<>>}, auditId : {0}]

GenIdle ==
    [start |-> FirstDay, span |-> 0, frequency |-> "one_time",
     state |-> "ready", dates |-> <<>>]

ConcInit ==
    /\ gen = GenIdle
    /\ orders \in {{}, {NewOrder(1, FormatOrderNumber(CurrentYear, 1), Today,
                                 Today, NULL, "draft", TRUE, NoOrderNumber)}}
    /\ nextId = 2
    /\ proc = [p \in Procs |-> IdleLocal]
    /\ audits = <<>>

ConcCreate(p) ==
    /\ proc[p].pc = "idle"
    /\ \E r \in ConcRequests : CreateBegin(p, r)

ConcNext ==
    \/ \E p \in DOMAIN proc : ConcCreate(p)
    \/ \E p \in DOMAIN proc : AllocFindLast(p)
    \/ \E p \in DOMAIN proc : AllocCheck(p)
    \/ \E p \in DOMAIN proc : CreateSave(p)

ConcSpec == ConcInit /\ [][ConcNext]_vars

(***************************************************************************)
(* Spec: the order handlers, one request after the other                   *)
(***************************************************************************)
\* no request is in flight
Quiet == proc[1].pc \in {"idle", "done"}

\* the requests of the model: a few bodies for each handler
CreateBody(customer, items, status, endDate, frequency) ==
    [customer |-> customer, items |-> items, status |-> status,
     startDate |-> Today, endDate |-> endDate, frequency |-> frequency,
     target |-> 0, updates |-> {}, user |-> NULL, orderIds |-> <<>>,
     driver |-> NULL, deliveryDate |-> 0,
     action |-> NULL, imageType |-> NULL, fileName |-> 0,
     beforeImages |-> <<>>, afterImages |-> <<>>, auditId |-> 0]

CreateRequests ==
    {CreateBody("active", "active", "in_progress", endDate, "weekly") :
         endDate \in {Today + 14, Today + 20}}
        \cup {CreateBody("active", "active", "draft", Today + 20, "weekly"),
              CreateBody("active", "active", "in_progress", Today + 14, "monthly"),
              CreateBody("active", "active", "in_progress", Today + 14, "biweekly"),
              CreateBody("inactive", "active", "pending", Today + 14, "weekly"),
              CreateBody("active", "inactive", "pending", Today + 14, "weekly"),
              CreateBody("active", "unknown", "pending", Today + 14, "weekly")}

\* the documents a request may add to the collection
NewDocs(startDate, endDate, frequency) ==
    IF LoopsForever(startDate, endDate, frequency) THEN 0
    ELSE Len(generateRecurringDates(startDate, endDate, frequency))

\* the documents a createOrder request may add: none when it is refused,
\* one for a draft
RequestDocs(r) ==
    IF r.customer # "active" THEN 0
    ELSE IF r.status = "draft" THEN 1
    ELSE IF \/ FirstMissingField(r.items, r.startDate, r.endDate, r.frequency) # NULL
            \/ r.items # "active"
    THEN 0
    ELSE NewDocs(r.startDate, r.endDate, r.frequency)

SeqCreate ==
    /\ Quiet
    /\ \E r \in CreateRequests :
        /\ nextId + RequestDocs(r) <= MaxId + 1
        /\ CreateBegin(1, r)

TargetIds == {o.id : o \in orders} \cup {0}

UpdateBody(updates, status, startDate, endDate, frequency) ==
    [customer |-> NULL, items |-> NULL, status |-> status,
     startDate |-> startDate, endDate |-> endDate, frequency |-> frequency,
     target |-> 0, updates |-> updates, user |-> NULL, orderIds |-> <<>>,
     driver |-> NULL, deliveryDate |-> 0,
     action |-> NULL, imageType |-> NULL, fileName |-> 0,
     beforeImages |-> <<>>, afterImages |-> <<>>, auditId |-> 0]

UpdateBodies ==
    {UpdateBody({"frequency"}, NULL, NoDate, NoDate, "monthly"),
     UpdateBody({"startDate", "endDate"}, NULL, Today + 2, Today + 9, NULL)}

\* the series members an update may add to the collection
NewMembers(r) ==
    LET order == FindById(orders, r.target)
        newStartDate == Merged(r, order, "startDate")
        newEndDate == Merged(r, order, "endDate")
        newFrequency == Merged(r, order, "frequency")
    IN  IF order = NoOrder \/ ~order.mainOrder \/ ~IsRecurringUpdate(r) THEN 0
        ELSE IF newStartDate = NoDate \/ newEndDate = NoDate \/ newFrequency = NULL
        THEN 0
        ELSE LET dates == NewDocs(newStartDate, newEndDate, newFrequency)
             IN  IF dates > 0 THEN dates - 1 ELSE 0

SeqUpdate ==
    /\ Quiet
    /\ \E body \in UpdateBodies, id \in TargetIds :
           LET r == [body EXCEPT !.target = id]
           IN  /\ nextId + NewMembers(r) <= MaxId + 1
               /\ UpdateBegin(1, r)

SeqStatus ==
    /\ Quiet
    /\ \/ \E id \in TargetIds :
              UpdateOrderStatus(1, [NoRequest EXCEPT !.status = "in_progress",
                                                     !.target = id])
       \/ UpdateOrderStatus(1, [NoRequest EXCEPT !.status = "bogus"])

SeqDelete ==
    /\ Quiet
    /\ \E id \in TargetIds : DeleteOrder(1, [NoRequest EXCEPT !.target = id])

Init ==
    /\ gen = GenIdle
    /\ orders = {}
    /\ nextId = 1
    /\ proc = [p \in {1} |-> IdleLocal]
    /\ audits = <<>>

Next ==
    \/ SeqCreate
    \/ SeqUpdate
    \/ SeqStatus
    \/ SeqDelete
    \/ \E p \in DOMAIN proc : AllocFindLast(p)
    \/ \E p \in DOMAIN proc : AllocCheck(p)
    \/ \E p \in DOMAIN proc : AllocThrow(p)
    \/ \E p \in DOMAIN proc : CreateSave(p)
    \/ \E p \in DOMAIN proc : UpdateSave(p)
    \/ \E p \in DOMAIN proc : UpdateFinish(p)

Spec == Init /\ [][Next]_vars

(***************************************************************************)
(* SeriesSpec: schedule updates of main orders, members and drafts         *)
(***************************************************************************)
SeriesCreateRequests ==
    {CreateBody("active", "active", status, Today + 7, "weekly") :
         status \in {"pending", "draft"}}

SeriesCreate ==
    /\ Quiet
    /\ \E r \in SeriesCreateRequests :
        /\ nextId + RequestDocs(r) <= MaxId + 1
        /\ CreateBegin(1, r)

SeriesUpdateBodies ==
    {UpdateBody({"frequency"}, NULL, NoDate, NoDate, "monthly"),
     UpdateBody({"startDate", "endDate"}, NULL, Today + 2, Today + 9, NULL),
     UpdateBody({"endDate"}, NULL, NoDate, Today + 7, NULL)}

SeriesUpdate ==
    /\ Quiet
    /\ \E body \in SeriesUpdateBodies, id \in {o.id : o \in orders} :
           LET r == [body EXCEPT !.target = id]
           IN  /\ nextId + NewMembers(r) <= MaxId + 1
               /\ UpdateBegin(1, r)

SeriesStatus ==
    /\ Quiet
    /\ \E id \in {o.id : o \in orders} :
           UpdateOrderStatus(1, [NoRequest EXCEPT !.status = "draft",
                                                  !.target = id])

SeriesNext ==
    \/ SeriesCreate
    \/ SeriesUpdate
    \/ SeriesStatus
    \/ \E p \in DOMAIN proc : AllocFindLast(p)
    \/ \E p \in DOMAIN proc : AllocCheck(p)
    \/ \E p \in DOMAIN proc : AllocThrow(p)
    \/ \E p \in DOMAIN proc : CreateSave(p)
    \/ \E p \in DOMAIN proc : UpdateSave(p)
    \/ \E p \in DOMAIN proc : UpdateFinish(p)

SeriesSpec == Init /\ [][SeriesNext]_vars

(***************************************************************************)
(* ImageSpec: concurrent requests for the images of one order              *)
(***************************************************************************)
\* the file names uploaded before: upload-1, upload-2, ...
Uploaded(n) == [i \in 1..n |-> i]

\* one stored order whose lists were replaced by lists one short of the limit
ImageInit ==
    /\ gen = GenIdle
    /\ orders = {[NewOrder(1, FormatOrderNumber(CurrentYear, 1), Today, Today,
                           NULL, "pending", TRUE, NoOrderNumber)
                     EXCEPT !.beforeImages = Uploaded(MaxImages - 1),
                            !.afterImages = Uploaded(MaxImages - 1)]}
    /\ nextId = 2
    /\ proc = [p \in Procs |-> IdleLocal]
    /\ audits = <<>>

\* the file name of a new upload
NewUpload == MaxImages + 2

ImageRequests ==
    {[NoRequest EXCEPT !.target = 1, !.action = action, !.imageType = "before",
                       !.fileName = NewUpload] : action \in {"add", "remove"}}
        \cup {[NoRequest EXCEPT !.target = 1, !.action = "add",
                                !.imageType = "after", !.fileName = NewUpload]}
        \cup {[NoRequest EXCEPT !.target = 1, !.updates = {"beforeImages"},
                                !.beforeImages = Uploaded(n)] :
                  n \in {MaxImages, MaxImages + 1}}
        \cup {[NoRequest EXCEPT !.target = 1, !.updates = {"afterImages"},
                                !.afterImages = Uploaded(MaxImages + 1)]}
        \cup {[NoRequest EXCEPT !.target = 1],
              [NoRequest EXCEPT !.target = 0, !.action = "add",
                                !.imageType = "before", !.fileName = NewUpload]}

ImageArrive(p) ==
    /\ proc[p].pc \in {"idle", "done"}
    /\ \E r \in ImageRequests : ImageBegin(p, r)

ImageNext ==
    \/ \E p \in DOMAIN proc : ImageArrive(p)
    \/ \E p \in DOMAIN proc : ImageUpdate(p)

ImageSpec == ImageInit /\ [][ImageNext]_vars

(***************************************************************************)
(* AuditSpec: requests of a signed-in user, whose changes are audited      *)
(***************************************************************************)
\* req.user.userId of the requests
SignedIn(r) == [r EXCEPT !.user = "u1"]

\* the orders the requests name: the main orders
AuditTargets == {o.id : o \in {m \in orders : m.mainOrder}}

AuditCreate ==
    /\ Quiet /\ Len(audits) < MaxAudits
    /\ LET r == SignedIn(CreateBody("active", "active", "pending", Today + 7, "weekly"))
       IN  /\ nextId + RequestDocs(r) <= MaxId + 1
           /\ CreateBegin(1, r)

AuditUpdate ==
    /\ Quiet /\ Len(audits) < MaxAudits
    /\ \E id \in AuditTargets :
           LET r == SignedIn([UpdateBody({"startDate", "endDate"}, NULL,
                                         Today + 2, Today + 9, NULL)
                                 EXCEPT !.target = id])
           IN  /\ nextId + NewMembers(r) <= MaxId + 1
               /\ UpdateBegin(1, r)

AuditStatus ==
    /\ Quiet /\ Len(audits) < MaxAudits
    /\ \E id \in AuditTargets :
           UpdateOrderStatus(1, SignedIn([NoRequest EXCEPT !.status = "in_progress",
                                                          !.target = id]))

AuditDelete ==
    /\ Quiet /\ Len(audits) < MaxAudits
    /\ \E id \in AuditTargets :
           DeleteOrder(1, SignedIn([NoRequest EXCEPT !.target = id]))

AuditImages ==
    /\ Quiet /\ Len(audits) < MaxAudits
    /\ \E id \in AuditTargets :
           ImageBegin(1, SignedIn([NoRequest EXCEPT !.target = id,
                                       !.updates = {"beforeImages"},
                                       !.beforeImages = Uploaded(1)]))

AuditNext ==
    \/ AuditCreate
    \/ AuditUpdate
    \/ AuditStatus
    \/ AuditDelete
    \/ AuditImages
    \/ \E p \in DOMAIN proc : AllocFindLast(p)
    \/ \E p \in DOMAIN proc : AllocCheck(p)
    \/ \E p \in DOMAIN proc : CreateSave(p)
    \/ \E p \in DOMAIN proc : UpdateSave(p)
    \/ \E p \in DOMAIN proc : UpdateFinish(p)
    \/ \E p \in DOMAIN proc : ImageUpdate(p)

AuditSpec == Init /\ [][AuditNext]_vars

(***************************************************************************)
(* RevertSpec: audited requests and reverts of their audit records         *)
(***************************************************************************)
RevertCreate ==
    /\ Quiet /\ Len(audits) < MaxAudits
    /\ nextId <= MaxId
    /\ CreateBegin(1, SignedIn(CreateBody("active", "active", "pending", Today, "weekly")))

RevertUpdate ==
    /\ Quiet /\ Len(audits) < MaxAudits
    /\ \E id \in {o.id : o \in orders} :
           UpdateBegin(1, SignedIn([UpdateBody({"status"}, "delivered", NoDate, NoDate, NULL)
                                       EXCEPT !.target = id]))

RevertDelete ==
    /\ Quiet /\ Len(audits) < MaxAudits
    /\ \E id \in {o.id : o \in orders} :
           DeleteOrder(1, SignedIn([NoRequest EXCEPT !.target = id]))

RevertRevert ==
    /\ Quiet /\ Len(audits) < MaxAudits
    /\ \E auditId \in 0..Len(audits) :
           RevertChange(1, SignedIn([NoRequest EXCEPT !.auditId = auditId]))

RevertNext ==
    \/ RevertCreate
    \/ RevertUpdate
    \/ RevertDelete
    \/ RevertRevert
    \/ \E p \in DOMAIN proc : AllocFindLast(p)
    \/ \E p \in DOMAIN proc : AllocCheck(p)
    \/ \E p \in DOMAIN proc : CreateSave(p)
    \/ \E p \in DOMAIN proc : UpdateFinish(p)

RevertSpec == Init /\ [][RevertNext]_vars

(***************************************************************************)
(* RouteSpec: the delivery sequence of the orders of a driver              *)
(***************************************************************************)
\* the stored orders: single pending orders, numbered in order of creation
RouteOrderIds == 1..(MaxId - 1)

RouteOrder(id, driver) ==
    [NewOrder(id, FormatOrderNumber(CurrentYear, id), Today, Today, "weekly",
              "pending", TRUE, NoOrderNumber) EXCEPT !.assignedDriver = driver]

RouteInit ==
    /\ gen = GenIdle
    /\ \E assigned \in [RouteOrderIds -> Drivers \cup {NULL}] :
           orders = {RouteOrder(id, assigned[id]) : id \in RouteOrderIds}
    /\ nextId = MaxId
    /\ proc = [p \in {1} |-> IdleLocal]
    /\ audits = <<>>

\* the lists of a request: the lists of stored ids without repetition, the
\* lists of at most two ids with an id that is not stored (0), and the lists
\* that name an order twice
OrderIdLists ==
    LET lists == UNION {[1..n -> RouteOrderIds \cup {0}] : n \in 0..(MaxId - 1)}
    IN  {ids \in lists :
            \/ Distinct(ids) /\ 0 \notin SeqRange(ids)
            \/ Len(ids) <= 2 /\ 0 \in SeqRange(ids)
            \/ Len(ids) = 2 /\ ids[1] = ids[2]}

SequenceRequests ==
    {SignedIn(r) : r \in
    {[NoRequest EXCEPT !.orderIds = ids, !.driver = "d1", !.deliveryDate = Today] :
         ids \in OrderIdLists}
        \cup {[NoRequest EXCEPT !.orderIds = <<1>>, !.driver = driver,
                                !.deliveryDate = Today] : driver \in {NULL, "d3"}}
        \cup {[NoRequest EXCEPT !.orderIds = <<1>>, !.driver = "d1"]}}

RouteSequence ==
    /\ Quiet
    /\ \E r \in SequenceRequests : UpdateDeliverySequence(1, r)

RouteAssign ==
    /\ Quiet
    /\ \E r \in {[NoRequest EXCEPT !.orderIds = <<id>>, !.driver = "d1"] :
                     id \in RouteOrderIds} :
           AssignOrdersToDriver(1, SignedIn(r))

RouteNext ==
    \/ RouteSequence
    \/ RouteAssign

RouteSpec == RouteInit /\ [][RouteNext]_vars

(***************************************************************************)
(* Properties                                                              *)
(***************************************************************************)
Returned(l) == l.kind = "alloc" /\ l.pc = "done" /\ l.outcome = "returned"

\* C1: a call generateUniqueOrderNumbers(year, N) that returns yields exactly
\* N pairwise distinct numbers of the form A-<year>-<sequence>, none of which
\* is the orderNumber of a stored order.
C1_ReturnedBatchDistinctAndUnused ==
    \A p \in DOMAIN proc :
        Returned(proc[p]) =>
            LET numbers == proc[p].orderNumbers
            IN  /\ Len(numbers) = proc[p].count
                /\ Distinct(numbers)
                /\ \A i \in 1..Len(numbers) :
                       /\ numbers[i].prefix = "A"
                       /\ numbers[i].year = proc[p].year
                       /\ Len(numbers[i].seq) >= 4
                       /\ numbers[i] \notin OrderNumbersOf(orders)

\* a returned batch of several numbers, found past stored numbers of the year
C1_Witness ==
    \E p \in DOMAIN proc :
        /\ Returned(proc[p])
        /\ proc[p].count = 2
        /\ ~proc[p].fallback
        /\ \E o \in orders : MatchesYear(o.orderNumber, proc[p].year)

C3_Outcome(l) ==
    /\ l.attempts <= maxAttempts
    /\ l.pc = "alloc_find_last" => l.attempts < maxAttempts
    /\ l.outcome = "returned" =>
           /\ Len(l.orderNumbers) = l.count
           /\ l.fallback =>
                  /\ l.attempts = maxAttempts
                  /\ \A i \in 1..Len(l.orderNumbers) :
                         l.orderNumbers[i] \notin OrderNumbersOf(orders)
    /\ l.pc = "done" =>
           \/ l.outcome = "returned"
           \/ l.outcome = "thrown" /\ l.orderNumbers = <<>>

\* the awaits an allocator call can still go through: every step lowers it
AllocMeasure(l) ==
    CASE l.pc = "idle" -> 2 * maxAttempts + 4
      [] l.pc = "alloc_find_last" -> 2 * (maxAttempts - l.attempts) + 3
      [] l.pc = "alloc_check" -> 2 * (maxAttempts - l.attempts) + 2
      [] l.pc = "alloc_fallback" -> 2
      [] l.pc = "alloc_throw" -> 1
      [] OTHER -> 0

\* C3: generateUniqueOrderNumbers ends after at most maxAttempts attempts
\* (every step of a call brings it nearer to its end), either returning a
\* complete batch of N numbers or throwing; it never returns fewer than N
\* numbers, and the fallback batch is returned only after the attempts are
\* used up and only if none of its numbers is stored.
C3_TerminatesCompleteOrThrows ==
    /\ [](\A p \in DOMAIN proc : C3_Outcome(proc[p]))
    /\ [][\A p \in DOMAIN proc :
              proc'[p] # proc[p] =>
                  /\ AllocMeasure(proc'[p]) < AllocMeasure(proc[p])
                  /\ AllocMeasure(proc'[p]) >= 0]_vars

\* the attempts are used up and the fallback batch is returned
C3_Witness ==
    \E p \in DOMAIN proc :
        /\ Returned(proc[p])
        /\ proc[p].fallback
        /\ proc[p].attempts = maxAttempts
        /\ proc[p].count = 2

GenReturned == gen.state = "returned"

\* C4: for start <= end the dates are non-decreasing, the first is start and
\* every date lies in [start, end].
C4_DatesOrderedWithinRange ==
    (GenReturned /\ gen.start <= GenEnd(gen)) =>
        /\ Len(gen.dates) >= 1
        /\ gen.dates[1] = gen.start
        /\ \A i \in 1..Len(gen.dates) :
               gen.start <= gen.dates[i] /\ gen.dates[i] <= GenEnd(gen)
        /\ \A i \in 1..(Len(gen.dates) - 1) : gen.dates[i] <= gen.dates[i + 1]

\* monthly from January 31: the day of the month overflows into March
C4_Witness ==
    /\ GenReturned
    /\ gen.frequency = "monthly"
    /\ gen.start = MakeDay(BaseYear, 0, 31)
    /\ Len(gen.dates) >= 3

IsWeekend(t) == GetDay(t) = 0 \/ GetDay(t) = 6

\* C5: for frequency weekdays and start <= end, also when start is a
\* Saturday or Sunday, no generated date is a Saturday or Sunday.
C5_NoWeekendDates ==
    (GenReturned /\ gen.frequency = "weekdays" /\ gen.start <= GenEnd(gen)) =>
        \A i \in 1..Len(gen.dates) : ~IsWeekend(gen.dates[i])

\* C6: for frequency one_time the result is exactly <<start>>, whatever end is.
C6_OneTimeIsStartOnly ==
    (GenReturned /\ gen.frequency = "one_time") => gen.dates = <<gen.start>>

FixedStep(frequency) ==
    CASE frequency = "daily" -> 1
      [] frequency = "weekly" -> 7
      [] frequency = "every_2nd_week" -> 14
      [] frequency = "every_3rd_week" -> 21
      [] frequency = "every_5th_week" -> 35
      [] frequency = "6_weeks" -> 42
      [] frequency = "8_weeks" -> 56
      [] OTHER -> 0

\* C7: for the fixed-step frequencies consecutive dates differ by exactly the
\* step, and for start <= end there are floor((end - start) / step) + 1 dates.
C7_FixedStepDates ==
    (GenReturned /\ FixedStep(gen.frequency) > 0 /\ gen.start <= GenEnd(gen)) =>
        /\ \A i \in 1..(Len(gen.dates) - 1) :
               gen.dates[i + 1] - gen.dates[i] = FixedStep(gen.frequency)
        /\ Len(gen.dates) = (gen.span \div FixedStep(gen.frequency)) + 1

\* three-week steps that cross a month end
C7_Witness ==
    /\ GenReturned
    /\ gen.frequency = "every_3rd_week"
    /\ Len(gen.dates) = 3
    /\ GetMonth(gen.dates[3]) > GetMonth(gen.dates[1])

\* the stored documents a finished createOrder answered with, in the order
\* of its loop
CreatedDocs(l) == [i \in 1..Len(l.created) |-> FindById(orders, l.created[i])]

\* a createOrder request that was answered 201
Created(l) == l.kind = "create" /\ l.pc = "done" /\ l.response = 201

Proposed(l) == l.kind = "create" /\ l.pc = "done" /\ l.orderNumbers # <<>>

\* C2: under every interleaving of concurrent createOrder requests no two
\* stored orders share an orderNumber; when two requests were given
\* overlapping batches of numbers, at most one of them is answered 201 and,
\* unless one fails the validation of its documents, the other one ends
\* with the duplicate-key error answer (400), the refused number being
\* stored once, by another request.
C2_NoStoredDuplicateOrderNumber ==
    /\ \A o1, o2 \in orders : o1.orderNumber = o2.orderNumber => o1 = o2
    /\ \A p, q \in DOMAIN proc :
          (/\ p # q
           /\ Proposed(proc[p]) /\ Proposed(proc[q])
           /\ SeqRange(proc[p].orderNumbers)
                  \cap SeqRange(proc[q].orderNumbers) # {}) =>
              /\ ~(Created(proc[p]) /\ Created(proc[q]))
              /\ \/ "validation" \in {proc[p].error, proc[q].error}
                 \/ Created(proc[p]) /\ proc[q].error = "duplicate"
                 \/ Created(proc[q]) /\ proc[p].error = "duplicate"
    /\ \A p \in DOMAIN proc :
          proc[p].error = "duplicate" =>
              /\ proc[p].response = 400
              /\ Len(proc[p].created) < proc[p].count
              /\ \E o \in orders :
                     /\ o.orderNumber = proc[p].orderNumbers[Len(proc[p].created) + 1]
                     /\ o.id \notin SeqRange(proc[p].created)

\* two requests were given the same first number: one stored its series,
\* the other was refused at its second order after storing its first
C2_Witness ==
    \E p, q \in DOMAIN proc :
        /\ Created(proc[p])
        /\ proc[q].pc = "done" /\ proc[q].error = "duplicate"
        /\ Len(proc[q].created) = 1
        /\ SeqRange(proc[p].orderNumbers) \cap SeqRange(proc[q].orderNumbers) # {}

\* C8: a non-draft createOrder with frequency weekly whose dates span a
\* 21-day window (the end date is the 21st day, start + 20) that is answered
\* 201 has stored exactly three orders: one main order and two members whose
\* originalOrderNumber is the main order's orderNumber, with start dates 7
\* days apart.
C8_WeeklyThreeWeeksStoresThree ==
    \A p \in DOMAIN proc :
        (/\ Created(proc[p])
         /\ proc[p].req.status # "draft"
         /\ proc[p].req.frequency = "weekly"
         /\ proc[p].req.endDate = proc[p].req.startDate + 20) =>
            LET docs == CreatedDocs(proc[p])
            IN  /\ Len(docs) = 3
                /\ Cardinality({docs[i].id : i \in 1..Len(docs)}) = 3
                /\ \A i \in 1..Len(docs) : docs[i] \in orders
                /\ docs[1].mainOrder
                /\ \A i \in 2..Len(docs) :
                       /\ ~docs[i].mainOrder
                       /\ docs[i].originalOrderNumber = docs[1].orderNumber
                       /\ docs[i].startDate = docs[i - 1].startDate + 7

C8_Witness ==
    \E p \in DOMAIN proc :
        /\ Created(proc[p])
        /\ proc[p].req.status = "in_progress"
        /\ proc[p].req.frequency = "weekly"
        /\ proc[p].req.endDate = proc[p].req.startDate + 20
        /\ Cardinality({o \in orders : o.id \in SeqRange(proc[p].created)}) = 3

\* C9: a non-draft createOrder that is answered 201 has stored exactly one
\* order per date of generateRecurringDates, each with its own orderNumber
\* and status pending; the order of the first date has mainOrder = true and
\* the others have mainOrder = false and the first order's orderNumber as
\* originalOrderNumber.
C9_OneOrderPerDate ==
    \A p \in DOMAIN proc :
        (Created(proc[p]) /\ proc[p].req.status # "draft") =>
            LET docs == CreatedDocs(proc[p])
                dates == generateRecurringDates(proc[p].req.startDate,
                                                proc[p].req.endDate,
                                                proc[p].req.frequency)
            IN  /\ Len(docs) = Len(dates)
                /\ \A i \in 1..Len(docs) :
                       /\ docs[i] \in orders
                       /\ docs[i].startDate = dates[i]
                       /\ docs[i].status = "pending"
                       /\ docs[i].mainOrder = (i = 1)
                       /\ docs[i].originalOrderNumber =
                              IF i = 1 THEN NoOrderNumber ELSE docs[1].orderNumber
                /\ \A i, j \in 1..Len(docs) :
                       i # j => /\ docs[i].orderNumber # docs[j].orderNumber
                                /\ docs[i].id # docs[j].id

\* start 2024-01-01, end 2024-01-15, weekly, asked with status in_progress:
\* three orders dated Jan 1, 8 and 15
C9_Witness ==
    \E p \in DOMAIN proc :
        /\ Created(proc[p])
        /\ proc[p].req.status = "in_progress"
        /\ proc[p].req.frequency = "weekly"
        /\ proc[p].req.startDate = MakeDay(BaseYear, 0, 1)
        /\ proc[p].req.endDate = MakeDay(BaseYear, 0, 15)
        /\ {GetDate(o.startDate) : o \in {d \in orders : d.id \in SeqRange(proc[p].created)}}
               = {1, 8, 15}

\* C10: in every state reached by createOrder, updateOrder, updateOrderStatus
\* and deleteOrder requests handled one after the other, every order with an
\* originalOrderNumber has mainOrder = false and references the orderNumber
\* of exactly one stored order with mainOrder = true, and every order without
\* an originalOrderNumber is a main order.
C10_SeriesHaveOneMainOrder ==
    \A o \in orders :
        IF o.originalOrderNumber # NoOrderNumber
        THEN /\ ~o.mainOrder
             /\ Cardinality({m \in orders : /\ m.mainOrder
                                             /\ m.orderNumber = o.originalOrderNumber}) = 1
        ELSE o.mainOrder

\* a series whose main order was rescheduled by updateOrder, which has a
\* regenerated member that was status-patched, after a delete
C10_Witness ==
    /\ Quiet
    /\ nextId > Cardinality(orders) + 1
    /\ \E m, o \in orders :
           /\ m.mainOrder
           /\ m.startDate = Today + 2
           /\ o.originalOrderNumber = m.orderNumber
           /\ o.status = "in_progress"

\* a request of the given handler that has been answered
Answered(l, kind) == l.kind = kind /\ l.pc = "done"

\* C11: after a deleteOrder answered 200 that targeted an order of a series
\* (the main order or a member), no order of that series is stored: neither
\* the order with the main order's number nor any order whose
\* originalOrderNumber is that number.
C11_DeleteRemovesWholeSeries ==
    \A p \in DOMAIN proc :
        (Answered(proc[p], "delete") /\ proc[p].response = 200) =>
            LET target == proc[p].order
                number == IF target.mainOrder THEN target.orderNumber
                          ELSE target.originalOrderNumber
            IN  \A o \in orders :
                    /\ o.id # target.id
                    /\ o.orderNumber # number
                    /\ o.originalOrderNumber # number

\* a member of a series of three was targeted and three orders went
C11_Witness ==
    \E p \in DOMAIN proc :
        /\ Answered(proc[p], "delete") /\ proc[p].response = 200
        /\ ~proc[p].order.mainOrder
        /\ Cardinality(proc[p].removed) = 3

\* C12: a deleteOrder whose target is stored with a status other than pending
\* and draft is answered 400 and leaves the collection as it was.
C12_DeleteOnlyPendingOrDraft ==
    [][\A p \in DOMAIN proc :
          (/\ proc[p].pc = "idle" \/ proc[p].pc = "done"
           /\ Answered(proc'[p], "delete")
           /\ proc'[p] # proc[p]
           /\ \E o \in orders : /\ o.id = proc'[p].req.target
                                 /\ o.status \notin {"pending", "draft"}) =>
              /\ proc'[p].response = 400
              /\ orders' = orders]_vars

C12_Witness ==
    \E p \in DOMAIN proc :
        /\ Answered(proc[p], "delete") /\ proc[p].response = 400
        /\ proc[p].order.status = "in_progress"
        /\ proc[p].order.mainOrder
        /\ \E o \in orders : o.originalOrderNumber = proc[p].order.orderNumber

\* C13: no step of an updateOrder request removes a series member whose
\* status is not pending: every such member stored before the step is
\* stored after it.
C13_UpdateKeepsNonPendingMembers ==
    [][\A p \in DOMAIN proc :
          (proc'[p] # proc[p] /\ proc'[p].kind = "update") =>
              \A o \in orders :
                  (~o.mainOrder /\ o.status # "pending") =>
                      \E kept \in orders' : kept.id = o.id]_vars

\* the schedule of a main order was changed, its pending member was removed
\* and its in_progress member is still stored
C13_Witness ==
    \E p \in DOMAIN proc :
        /\ Answered(proc[p], "update")
        /\ IsRecurringUpdate(proc[p].req)
        /\ proc[p].order.mainOrder
        /\ proc[p].removed # {}
        /\ \E o \in orders : /\ o.originalOrderNumber = proc[p].order.orderNumber
                              /\ o.status = "in_progress"

\* C14: when an updateOrder that changes frequency, startDate or endDate of
\* a non-draft main order is answered 200, the pending members stored
\* before it are gone and the pending members of the series are exactly the
\* orders the request created, one for each date but the first of
\* generateRecurringDates for the new schedule, each with mainOrder = false
\* and the main order's number as originalOrderNumber.
C14_UpdateRegeneratesPendingMembers ==
    [][\A p \in DOMAIN proc :
          (/\ proc[p].pc = "update_finish"
           /\ Answered(proc'[p], "update") /\ proc'[p].response = 200
           /\ IsRecurringUpdate(proc[p].req)
           /\ proc[p].order.mainOrder
           /\ proc[p].order.status # "draft") =>
              LET main == proc'[p].order
                  dates == generateRecurringDates(main.startDate, main.endDate,
                                                  main.frequency)
                  pending == {o \in orders' :
                                 /\ o.originalOrderNumber = main.orderNumber
                                 /\ o.status = "pending"
                                 /\ o.id # main.id}
              IN  /\ main \in orders'
                  /\ \A o \in orders' : o.id \notin proc[p].removed
                  /\ {o.id : o \in pending} = SeqRange(proc[p].created)
                  /\ Cardinality(pending) = Len(dates) - 1
                  /\ \A i \in 2..Len(dates) :
                         \E o \in pending : o.startDate = dates[i]
                  /\ \A o \in pending : ~o.mainOrder]_vars

\* the pending member of a pending main order was replaced by a new one
C14_Witness ==
    \E p \in DOMAIN proc :
        /\ Answered(proc[p], "update") /\ proc[p].response = 200
        /\ IsRecurringUpdate(proc[p].req)
        /\ proc[p].order.mainOrder /\ proc[p].order.status = "pending"
        /\ proc[p].removed # {}
        /\ proc[p].created # <<>>

\* the order an arriving request targets, as stored
Targeted(l) == FindById(orders, l.req.target)

\* C15: no step of an updateOrder request whose target is stored with
\* status draft creates or deletes another order, also when the request
\* changes frequency, startDate or endDate.
C15_DraftUpdateRegeneratesNothing ==
    [][\A p \in DOMAIN proc :
          (/\ proc'[p] # proc[p] /\ proc'[p].kind = "update"
           /\ Targeted(proc'[p]) # NoOrder
           /\ Targeted(proc'[p]).status = "draft") =>
              /\ {o.id : o \in orders'} = {o.id : o \in orders}
              /\ \A o \in orders : o.id # proc'[p].req.target => o \in orders']_vars

\* C16 as stated: an updateOrder that changes frequency, startDate or
\* endDate and targets an order with mainOrder = false of a series is
\* answered 400 with the advice to update the main order, and the
\* collection is left as it was.
C16_MemberScheduleUpdateRejected ==
    [][\A p \in DOMAIN proc :
          (/\ proc[p].pc \in {"idle", "done"}
           /\ proc'[p] # proc[p] /\ proc'[p].kind = "update"
           /\ IsRecurringUpdate(proc'[p].req)
           /\ Targeted(proc'[p]) # NoOrder
           /\ ~Targeted(proc'[p]).mainOrder
           /\ MainOrderOf(orders, Targeted(proc'[p])) # {}) =>
              /\ Answered(proc'[p], "update")
              /\ proc'[p].response = 400
              /\ proc'[p].error = "update_main_order"
              /\ orders' = orders]_vars

\* C16 amended: the same for a targeted member whose status is not draft.
C16_NonDraftMemberScheduleUpdateRejected ==
    [][\A p \in DOMAIN proc :
          (/\ proc[p].pc \in {"idle", "done"}
           /\ proc'[p] # proc[p] /\ proc'[p].kind = "update"
           /\ IsRecurringUpdate(proc'[p].req)
           /\ Targeted(proc'[p]) # NoOrder
           /\ ~Targeted(proc'[p]).mainOrder
           /\ Targeted(proc'[p]).status # "draft"
           /\ MainOrderOf(orders, Targeted(proc'[p])) # {}) =>
              /\ Answered(proc'[p], "update")
              /\ proc'[p].response = 400
              /\ proc'[p].error = "update_main_order"
              /\ orders' = orders]_vars

\* a pending member was asked to change its dates and the request refused
C16_Witness ==
    \E p \in DOMAIN proc :
        /\ Answered(proc[p], "update")
        /\ proc[p].error = "update_main_order"
        /\ proc[p].order.status = "pending"
        /\ proc[p].order \in orders
        /\ proc[p].req.updates = {"startDate", "endDate"}

\* C17: a createOrder whose customer is not active or, for a non-draft
\* order, whose line items name an Item that does not exist or is not
\* active, is answered 400 in its first step: no order is written and the
\* allocator is never called, so no order number is taken.
C17_InvalidCustomerOrItemWritesNothing ==
    [][\A p \in DOMAIN proc :
          (/\ proc[p].pc \in {"idle", "done"}
           /\ proc'[p] # proc[p] /\ proc'[p].kind = "create"
           /\ \/ proc'[p].req.customer = "inactive"
              \/ /\ proc'[p].req.status # "draft"
                 /\ proc'[p].req.items \in {"inactive", "unknown"}) =>
              /\ Answered(proc'[p], "create")
              /\ proc'[p].response = 400
              /\ orders' = orders
              /\ proc'[p].orderNumbers = <<>>
              /\ proc'[p].batchNumbers = <<>>]_vars

\* an inactive Item refused while orders are stored
C17_Witness ==
    \E p \in DOMAIN proc :
        /\ Answered(proc[p], "create")
        /\ proc[p].req.items = "inactive"
        /\ proc[p].response = 400
        /\ orders # {}

\* C18: an updateDeliverySequence request with a list of different order
\* ids, a driver and a date: when every listed order is stored and assigned
\* to that driver the answer is 200 and the order at position i of the list
\* (counted from 1 here) has deliverySequence i; when a listed order is not
\* stored or is assigned to another driver the request is refused and the
\* collection is left as it was.
C18_DeliverySequenceFollowsList ==
    [][\A p \in DOMAIN proc :
          (proc'[p] # proc[p] /\ Answered(proc'[p], "sequence")) =>
              LET r == proc'[p].req
                  matches == \A i \in 1..Len(r.orderIds) :
                                 \E o \in orders : /\ o.id = r.orderIds[i]
                                                   /\ o.assignedDriver = r.driver
              IN  /\ (/\ r.orderIds # <<>> /\ Distinct(r.orderIds)
                      /\ r.driver \in Drivers /\ r.deliveryDate # NoDate
                      /\ matches) =>
                         /\ proc'[p].response = 200
                         /\ \A i \in 1..Len(r.orderIds) :
                                \E o \in orders' : /\ o.id = r.orderIds[i]
                                                    /\ o.deliverySequence = i
                         /\ {o.id : o \in orders'} = {o.id : o \in orders}
                  /\ ~matches =>
                         /\ proc'[p].response \in {400, 404}
                         /\ orders' = orders]_vars

\* two orders of the driver were listed in the reverse order of their ids
C18_Witness ==
    \E p \in DOMAIN proc :
        /\ Answered(proc[p], "sequence") /\ proc[p].response = 200
        /\ Len(proc[p].req.orderIds) = 2
        /\ proc[p].req.orderIds[1] > proc[p].req.orderIds[2]
        /\ \A i \in 1..2 : FindById(orders, proc[p].req.orderIds[i]).deliverySequence = i

\* C19: in every state, also one reached by requests for the images of one
\* order that run at the same time, beforeImages and afterImages of every
\* stored order have at most 10 entries.
C19_ImageListsWithinLimit ==
    \A o \in orders : /\ Len(o.beforeImages) <= MaxImages
                      /\ Len(o.afterImages) <= MaxImages

\* C20: when a write of the audit trail fails during a request that changes
\* orders (createOrder, updateOrder, updateOrderStatus, deleteOrder,
\* updateOrderImages), the request is answered as it is when the write
\* succeeds (201 for createOrder, 200 for the others, no error), the change
\* is stored, and the audit trail loses nothing it held.
C20_AuditFailureIsNotSurfaced ==
    [][\A p \in DOMAIN proc :
          (proc'[p] # proc[p] /\ proc'[p].pc = "done" /\ proc'[p].auditErrors > 0) =>
              LET l == proc'[p]
              IN  /\ l.response = IF l.kind = "create" THEN 201 ELSE 200
                  /\ l.error = "none"
                  /\ SubSeq(audits', 1, Len(audits)) = audits
                  /\ CASE l.kind = "create" ->
                              /\ l.created # <<>>
                              /\ \A i \in 1..Len(l.created) :
                                     \E o \in orders' : o.id = l.created[i]
                        [] l.kind = "update" ->
                              /\ l.order \in orders'
                              /\ l.order.startDate = l.req.startDate
                        [] l.kind = "status" ->
                              /\ l.order \in orders'
                              /\ l.order.status = l.req.status
                        [] l.kind = "delete" ->
                              /\ l.req.target \in l.removed
                              /\ \A o \in orders' : o.id \notin l.removed
                        [] l.kind = "images" ->
                              FindById(orders', l.req.target).beforeImages
                                  = l.req.beforeImages
                        [] OTHER -> FALSE]_vars

\* a deleteOrder request of a series whose audit writes all failed
C20_Witness ==
    \E p \in DOMAIN proc :
        /\ Answered(proc[p], "delete") /\ proc[p].response = 200
        /\ proc[p].auditErrors > 1
        /\ \A o \in orders : o.id \notin proc[p].removed

\* C21: a request of a signed-in user that changed the stored orders and was
\* answered with success has attempted an audit write: either the write
\* failed, or the audit trail holds a new record.
C21_SuccessfulMutationIsAudited ==
    [][\A p \in DOMAIN proc :
          (/\ proc'[p] # proc[p] /\ proc'[p].pc = "done"
           /\ proc'[p].response \in {200, 201}
           /\ proc'[p].req.user # NULL
           /\ orders' # orders) =>
              \/ proc'[p].auditErrors > 0
              \/ Len(audits') > Len(audits)]_vars

\* a revertChange request that was answered 200 in this step and named an
\* update record
Reverted(p) ==
    /\ proc'[p] # proc[p] /\ Answered(proc'[p], "revert")
    /\ proc'[p].response = 200
    /\ audits[proc'[p].req.auditId].action = "update"

\* every field listed in the record has its recorded old value again on the
\* document of the record, if that document is still stored
RevertedFields(p) ==
    LET audit == audits[proc'[p].req.auditId]
    IN  FindById(orders, audit.documentId) # NoOrder =>
            \A field \in DOMAIN audit.changes :
                FindById(orders', audit.documentId)[field]
                    = Restored(field, audit.changes[field].oldValue)

\* the record of the revert: action update, the pairs of the record inverted
RevertRecord(p) ==
    LET audit == audits[proc'[p].req.auditId]
    IN  AuditEntry("update", audit.documentId, Inverted(audit.changes))

\* no step changes or removes a record of the audit trail
AuditsOnlyGrow == SubSeq(audits', 1, Len(audits)) = audits

MaxExistingSequence(docs, batchNumbers) ==
    LET existingSequences ==
            {ParseSequence(o.orderNumber) : o \in ExistingOrders(docs, batchNumbers)}
    IN  CHOOSE s \in existingSequences : \A t \in existingSequences : t <= s

\* C23: when the batch proposed by an attempt collides with stored numbers,
\* the batch of the next attempt starts at the largest colliding sequence
\* plus one, and so above the start of the batch before.
C23_RetryStartsPastCollision ==
    [][\A p \in DOMAIN proc :
          (/\ proc[p].pc = "alloc_find_last" /\ proc'[p].pc = "alloc_check"
           /\ proc[p].batchNumbers # <<>>
           /\ ExistingOrders(orders, proc[p].batchNumbers) # {}) =>
              /\ ParseSequence(proc'[p].batchNumbers[1])
                     = MaxExistingSequence(orders, proc[p].batchNumbers) + 1
              /\ ParseSequence(proc'[p].batchNumbers[1])
                     > ParseSequence(proc[p].batchNumbers[1])]_vars

\* the numerically largest sequence of the stored numbers of a year, 0 when
\* the year has none
LargestSequence(docs, year) ==
    LET sequences == {ParseSequence(n) : n \in {m \in OrderNumbersOf(docs) :
                                                   MatchesYear(m, year)}}
    IN  IF sequences = {} THEN 0
        ELSE CHOOSE s \in sequences : \A t \in sequences : t <= s

\* C24: the first batch of a call starts right after the numerically largest
\* stored sequence of the year, and none of its numbers is stored.
C24_FirstBatchFollowsLargestSequence ==
    [][\A p \in DOMAIN proc :
          (/\ proc[p].pc = "alloc_find_last" /\ proc'[p].pc = "alloc_check"
           /\ proc[p].attempts = 0) =>
              /\ ParseSequence(proc'[p].batchNumbers[1])
                     = LargestSequence(orders, proc[p].year) + 1
              /\ ExistingOrders(orders, proc'[p].batchNumbers) = {}]_vars

\* C25: for a frequency of the schema's enum and a start that is not after
\* the end, generateRecurringDates returns: its loop is never one whose date
\* stays where it is.
C25_AcceptedFrequencyTerminates ==
    (gen.frequency \in FrequencyEnum /\ gen.span >= 0) => gen.state # "looping"

\* the number of the main order of the series an order belongs to
SeriesNumber(order) ==
    IF order.mainOrder THEN order.orderNumber ELSE order.originalOrderNumber

\* C26 (as stated): deleteOrder removes no order whose status is other than
\* pending or draft, the orders removed by the cascade included.
C26_DeleteRemovesOnlyPendingOrDraft ==
    [][\A p \in DOMAIN proc :
          (proc'[p] # proc[p] /\ Answered(proc'[p], "delete")) =>
              \A o \in orders \ orders' : o.status \in {"pending", "draft"}]_vars

\* C26 (amended): deleteOrder removes orders only when the order it targets
\* is pending or draft; an order of another status is removed only by the
\* cascade, as an order of the series of the targeted order.
C26_DeleteRemovesSeriesOfPendingOrDraft ==
    [][\A p \in DOMAIN proc :
          (proc'[p] # proc[p] /\ Answered(proc'[p], "delete")) =>
              LET target == FindById(orders, proc'[p].req.target)
              IN  \A o \in orders \ orders' :
                      /\ target.status \in {"pending", "draft"}
                      /\ \/ o = target
                         \/ SeriesNumber(o) = SeriesNumber(target)]_vars

\* a delete of a pending order took an order of its series with it that was
\* in progress
C26_Witness ==
    \E p \in DOMAIN proc :
        /\ Answered(proc[p], "delete") /\ proc[p].response = 200
        /\ proc[p].order.status = "pending"
        /\ \E o \in proc[p].ordersToDelete :
               /\ o.status = "in_progress"
               /\ o.id \notin {s.id : s \in orders}

\* C27: an updateOrder of a main order whose new schedule generates exactly
\* one date is answered without error, leaves no pending member of the
\* series and stores the main order with the new schedule.
C27_OneDateScheduleUpdateSucceeds ==
    \A p \in DOMAIN proc :
        (/\ Answered(proc[p], "update")
         /\ proc[p].order.mainOrder
         /\ IsRecurringUpdate(proc[p].req)
         /\ Len(proc[p].dates) = 1) =>
            /\ proc[p].response = 200
            /\ PendingMembers(orders, proc[p].order) = {}
            /\ proc[p].order \in orders

(***************************************************************************)
(* C28: after any sequence of schedule updates and status changes, no two  *)
(* orders of one series have the same startDate: regeneration creates no   *)
(* member for a date already covered by a retained member or by the main   *)
(* order.                                                                  *)
(***************************************************************************)
C28_RegenerationAvoidsRetainedDates ==
    [][\A p \in DOMAIN proc :
          (/\ proc[p].kind = "update"
           /\ proc[p].pc = "update_save") =>
              \A new \in orders' \ orders, kept \in orders :
                  (/\ ~kept.mainOrder
                   /\ SeriesNumber(new) = SeriesNumber(kept)) =>
                      new.startDate # kept.startDate]_vars

(***************************************************************************)
(* C29: after any sequence of driver assignments and updateDeliverySequence*)
(* calls, no two orders of one driver and one delivery date have the same  *)
(* deliverySequence.                                                       *)
(***************************************************************************)
C29_SequenceUniquePerDriverAndDay ==
    \A a \in orders, b \in orders :
        (/\ a.id # b.id
         /\ a.assignedDriver # NULL
         /\ a.assignedDriver = b.assignedDriver
         /\ a.startDate = b.startDate
         /\ ~IsAbsent("deliverySequence", a.deliverySequence)) =>
            a.deliverySequence # b.deliverySequence

(***************************************************************************)
(* C30: the audit record written by updateOrder lists exactly the fields   *)
(* whose value differs between the order before the update and the order   *)
(* after it; orderNumber, mainOrder and originalOrderNumber, which no      *)
(* update changes, are never listed.                                       *)
(***************************************************************************)
C30_UpdateAuditListsChangedFields ==
    [][\A p \in DOMAIN proc :
          (/\ proc[p].kind = "update"
           /\ proc[p].pc = "update_finish"
           /\ Len(audits') = Len(audits) + 1) =>
              LET before == FindById(orders, proc[p].order.id)
                  after == FindById(orders', proc[p].order.id)
              IN  DOMAIN audits'[Len(audits')].changes =
                      {field \in DOMAIN before : before[field] # after[field]}]_vars

====
